---- MODULE Spec2Model ----
(***************************************************************************)
(* A state-machine model of the ThaneHunt BLE HID keyboard firmware:       *)
(* the keyboard report state and report dispatcher (app_hid.c), the        *)
(* connection table and its BLE callbacks (app_ble.c) and the idle/sleep   *)
(* coordinator (app_sleep.c).                                              *)
(*                                                                         *)
(* C arrays are 0-based; the sequences below are 1-based, so slot i of the *)
(* model is element i-1 of the C array.  A NULL connection pointer is 0.   *)
(***************************************************************************)
EXTENDS Integers, Sequences, FiniteSets, TLC

\* ------------------------------------------------------------ constants

KEY_PRESS_MAX == 6

KEY_CTRL_CODE_MIN == 224

KEY_CTRL_CODE_MAX == 231

EBUSY == 16

EIO == 5

HID_KEY_NONE == 0

HID_KEY_A == 4

HID_KEY_H == 11

HID_KEY_SPACE == 44

EALREADY == 120

ENOMEM == 12
ENOTCONN == 128

BT_HCI_ERR_CONN_FAIL_TO_ESTAB == 62

\* Capacity of Button_queue.
BUTTON_QUEUE_LEN == 16

\* ------------------------------------------------------------ bounds

\* Number of non-control key codes offered to press/release in SpecKbd.
NumNormalKeys == 2

\* Number of distinct non-control keys offered to the slot-filling run.
NumFillKeys == 7

\* Number of connection slots (CONFIG_BT_HIDS_MAX_CLIENT_COUNT of the build).
MaxClients == 2

\* Level changes of the button the environment makes in a run.
MaxEdges == 2

\* Bits of the latch register that are followed.
NumLatchBits == 3

\* Idle timeout in timer ticks (CONFIG_DEVICE_IDLE_TIMEOUT_SECONDS).
IdleTicks == 2

\* ------------------------------------------------------------ input sets

\* Non-control codes tried by SpecKbd: a letter, the two codes that border
\* the control range, the keys the button thread sends.
KeyPool == <<HID_KEY_A, KEY_CTRL_CODE_MAX + 1, KEY_CTRL_CODE_MIN - 1, HID_KEY_H, HID_KEY_SPACE>>

NormalKeys == {KeyPool[i] : i \in 1..NumNormalKeys}

\* Codes tried by SpecKbd: no key, the non-control codes, one control code.
KbdKeys == {HID_KEY_NONE} \cup NormalKeys \cup {KEY_CTRL_CODE_MAX}

\* Codes tried by SpecMod: the two ends of the control range and the two
\* non-control codes that border it.
ModKeys ==
    {KEY_CTRL_CODE_MIN - 1, KEY_CTRL_CODE_MIN, KEY_CTRL_CODE_MAX, KEY_CTRL_CODE_MAX + 1}

FillKeys == {HID_KEY_A + i : i \in 0..(NumFillKeys - 1)}

Slots == 1..MaxClients

\* Connection handles the BLE stack may hand out: one more than there are slots.
Conns == 1..(MaxClients + 1)

NULL == 0

\* ------------------------------------------------------------ state

VARIABLES
    hid_keyboard_state,          \* struct keyboard_state (app_hid.c)
    ret,                         \* value returned by the last hid_buttons_* call
    bc,                          \* position of key_report_send: slot index i and the handle its check read
    conn_mode,                   \* struct conn_mode conn_mode[] (app_ble.c)
    is_adv,                      \* volatile bool is_adv
    is_internal_ble_disconnect,  \* volatile bool is_internal_ble_disconnect
    isBle_connected,             \* volatile bool isBle_connected
    live,                        \* handles whose link the BLE stack holds up
    idle_timer,                  \* k_timer idle_timer: ticks left, or -1 stopped
    idle_work,                   \* k_work idle_work is queued
    wq,                          \* position of the system work-queue thread
    imu_power_down,              \* bool imu_power_down (app_imu.c)
    imu_enabled,                 \* build option CONFIG_IMU_LSM6DSO
    btn,                         \* position of the button consumer thread
    pin,                         \* logic level of the button GPIO
    BUTTON_PIN,                  \* volatile uint32_t BUTTON_PIN: 1 when the button bit is set
    button_work,                 \* k_work_delayable button_work is scheduled
    Button_queue,                \* K_MSGQ Button_queue
    LATCH_RESET_BUTTON,          \* volatile bool LATCH_RESET_BUTTON
    NRF_P0_LATCH,                \* NRF_P0->LATCH: the set of bits that are 1
    lat,                         \* uint32_t lat of read_latch_register: the bits that are 1
    latch_pc,                    \* position of read_latch_register
    ev,                          \* history: what the last step did
    rt,                          \* history: press(k) directly followed by release(k)
    ctrl_last,                   \* history: control keys whose last operation was a press
    run,                         \* history: the inputs of the run so far
    joined,                      \* history: handles connected, while nobody disconnected
    steps,                       \* history: teardown steps, with their context
    burst,                       \* history: raw edges since button_work last ran
    tags                         \* history: for each queued event, what was true when it was sampled

kbdVars == <<hid_keyboard_state, ret, bc>>

bleVars == <<conn_mode, is_adv, is_internal_ble_disconnect, isBle_connected, live>>

sleepVars == <<idle_timer, idle_work, wq, imu_power_down, imu_enabled>>

latchVars == <<NRF_P0_LATCH, lat, latch_pc>>

btnVars == <<btn, pin, BUTTON_PIN, button_work, Button_queue, LATCH_RESET_BUTTON, latchVars>>

\* History of the button pipeline.
btnHist == <<burst, tags>>

histVars == <<ev, rt, ctrl_last, run, joined, steps, btnHist>>

vars == <<kbdVars, bleVars, sleepVars, btnVars, histVars>>

\* ------------------------------------------------------------ uint8 helpers

\* 1 << n for n in 0..8
Pow2(n) == <<1, 2, 4, 8, 16, 32, 64, 128, 256>>[n + 1]

\* bit n of the byte a
Bit(a, n) == (a \div Pow2(n)) % 2

\* a | b on uint8_t, bit by bit
BitOr8(a, b) ==
    LET or(n) == IF Bit(a, n) = 1 \/ Bit(b, n) = 1 THEN Pow2(n) ELSE 0
    IN  or(0) + or(1) + or(2) + or(3) + or(4) + or(5) + or(6) + or(7)

\* a & ~b on uint8_t, bit by bit
BitAndNot8(a, b) ==
    LET andnot(n) == IF Bit(a, n) = 1 /\ Bit(b, n) = 0 THEN Pow2(n) ELSE 0
    IN  andnot(0) + andnot(1) + andnot(2) + andnot(3)
        + andnot(4) + andnot(5) + andnot(6) + andnot(7)

MinOf(S) == CHOOSE i \in S : \A j \in S : i <= j

\* ------------------------------------------------------------ app_hid.c

EmptyKeyboard ==
    [ctrl_keys_state |-> 0, keys_state |-> [i \in 1..KEY_PRESS_MAX |-> 0]]

\* button_ctrl_code with the control range one code short at the top.
button_ctrl_code_short(key) ==
    IF KEY_CTRL_CODE_MIN <= key /\ key < KEY_CTRL_CODE_MAX
    THEN Pow2(key - KEY_CTRL_CODE_MIN) % 256
    ELSE 0

button_ctrl_code(key) ==
    IF KEY_CTRL_CODE_MIN <= key /\ key <= KEY_CTRL_CODE_MAX
    THEN Pow2(key - KEY_CTRL_CODE_MIN) % 256
    ELSE 0

\* hid_kbd_state_key_set that reports success when every slot is busy.
hid_kbd_state_key_set_nobusy(st, key) ==
    LET ctrl_mask == button_ctrl_code(key)
        free == {i \in 1..KEY_PRESS_MAX : st.keys_state[i] = 0}
    IN  IF ctrl_mask # 0
        THEN [st |-> [st EXCEPT !.ctrl_keys_state = BitOr8(@, ctrl_mask)], err |-> 0]
        ELSE IF free # {}
        THEN [st |-> [st EXCEPT !.keys_state[MinOf(free)] = key], err |-> 0]
        ELSE [st |-> [st EXCEPT !.keys_state[KEY_PRESS_MAX] = key], err |-> 0]

\* The new keyboard state and the return value.
hid_kbd_state_key_set(st, key) ==
    LET ctrl_mask == button_ctrl_code(key)
        free == {i \in 1..KEY_PRESS_MAX : st.keys_state[i] = 0}
    IN  IF ctrl_mask # 0
        THEN [st |-> [st EXCEPT !.ctrl_keys_state = BitOr8(@, ctrl_mask)], err |-> 0]
        ELSE IF free # {}
        THEN [st |-> [st EXCEPT !.keys_state[MinOf(free)] = key], err |-> 0]
        ELSE [st |-> st, err |-> -EBUSY]

\* hid_kbd_state_key_clear that, as its header comment announces, fails with -EINVAL when the key is not found.
hid_kbd_state_key_clear_einval(st, key) ==
    LET ctrl_mask == button_ctrl_code(key)
        hit == {i \in 1..KEY_PRESS_MAX : st.keys_state[i] = key}
    IN  IF ctrl_mask # 0
        THEN [st |-> [st EXCEPT !.ctrl_keys_state = BitAndNot8(@, ctrl_mask)], err |-> 0]
        ELSE IF hit # {}
        THEN [st |-> [st EXCEPT !.keys_state[MinOf(hit)] = 0], err |-> 0]
        ELSE [st |-> st, err |-> -22]

\* hid_kbd_state_key_clear with the ~ of "&= ~ctrl_mask" left out.
hid_kbd_state_key_clear_nonot(st, key) ==
    LET ctrl_mask == button_ctrl_code(key)
        hit == {i \in 1..KEY_PRESS_MAX : st.keys_state[i] = key}
    IN  IF ctrl_mask # 0
        THEN [st |-> [st EXCEPT !.ctrl_keys_state = @ - BitAndNot8(@, ctrl_mask)], err |-> 0]
        ELSE IF hit # {}
        THEN [st |-> [st EXCEPT !.keys_state[MinOf(hit)] = 0], err |-> 0]
        ELSE [st |-> st, err |-> 0]

hid_kbd_state_key_clear(st, key) ==
    LET ctrl_mask == button_ctrl_code(key)
        hit == {i \in 1..KEY_PRESS_MAX : st.keys_state[i] = key}
    IN  IF ctrl_mask # 0
        THEN [st |-> [st EXCEPT !.ctrl_keys_state = BitAndNot8(@, ctrl_mask)], err |-> 0]
        ELSE IF hit # {}
        THEN [st |-> [st EXCEPT !.keys_state[MinOf(hit)] = 0], err |-> 0]
        ELSE [st |-> st, err |-> 0]

\* The data[] array key_report_con_send builds: modifier, reserved, six keys.
ReportBytes(st) ==
    <<st.ctrl_keys_state, 0>> \o [i \in 1..KEY_PRESS_MAX |-> st.keys_state[i]]

\* key_report_con_send that always uses the report-mode primitive.
key_report_con_send_reportmode(st, boot_mode, conn, err) ==
    [conn |-> conn, boot |-> FALSE, data |-> ReportBytes(st), err |-> err]

\* key_report_con_send: one call of the boot-mode or report-mode send
\* primitive; err is what the primitive returns.
key_report_con_send(st, boot_mode, conn, err) ==
    [conn |-> conn, boot |-> boot_mode, data |-> ReportBytes(st), err |-> err]

\* key_report_send from slot i on: the sends made, in order, and the return
\* value.  sendErr[i] is what the send primitive returns for slot i.
RECURSIVE key_report_send_from(_, _, _, _)
key_report_send_from(st, table, sendErr, i) ==
    IF i > MaxClients THEN [sent |-> <<>>, err |-> 0]
    ELSE IF table[i].conn # NULL
    THEN LET r == key_report_con_send(st, table[i].in_boot_mode, table[i].conn, sendErr[i])
         IN  IF r.err # 0
             THEN [sent |-> <<r>>, err |-> r.err]
             ELSE LET rest == key_report_send_from(st, table, sendErr, i + 1)
                  IN  [sent |-> <<r>> \o rest.sent, err |-> rest.err]
    ELSE key_report_send_from(st, table, sendErr, i + 1)

key_report_send(st, table, sendErr) == key_report_send_from(st, table, sendErr, 1)

\* press_keys_from that goes on with the next key after a failure and
\* returns the last error.
RECURSIVE press_keys_from_continue(_, _, _)
press_keys_from_continue(st, keys, n) ==
    IF n > Len(keys) THEN [st |-> st, err |-> 0]
    ELSE LET r == hid_kbd_state_key_set(st, keys[n])
             rest == press_keys_from_continue(r.st, keys, n + 1)
         IN  [st |-> rest.st, err |-> IF rest.err # 0 THEN rest.err ELSE r.err]

\* The while (cnt--) loop of hid_buttons_press from key n on.
RECURSIVE press_keys_from(_, _, _)
press_keys_from(st, keys, n) ==
    IF n > Len(keys) THEN [st |-> st, err |-> 0]
    ELSE LET r == hid_kbd_state_key_set(st, keys[n])
         IN  IF r.err # 0 THEN r ELSE press_keys_from(r.st, keys, n + 1)

\* The while (cnt--) loop of hid_buttons_release from key n on.
RECURSIVE release_keys_from(_, _, _)
release_keys_from(st, keys, n) ==
    IF n > Len(keys) THEN [st |-> st, err |-> 0]
    ELSE LET r == hid_kbd_state_key_clear(st, keys[n])
         IN  IF r.err # 0 THEN r ELSE release_keys_from(r.st, keys, n + 1)

\* hid_buttons_press: new keyboard state, sends made, return value.
hid_buttons_press(st, table, keys, sendErr) ==
    LET p == press_keys_from(st, keys, 1)
    IN  IF p.err # 0
        THEN [st |-> p.st, sent |-> <<>>, ret |-> p.err]
        ELSE LET s == key_report_send(p.st, table, sendErr)
             IN  [st |-> p.st, sent |-> s.sent, ret |-> s.err]

\* hid_buttons_release that updates the state and leaves the report out.
hid_buttons_release_nosend(st, table, keys, sendErr) ==
    LET p == release_keys_from(st, keys, 1)
    IN  [st |-> p.st, sent |-> <<>>, ret |-> p.err]

\* hid_buttons_release: new keyboard state, sends made, return value.
hid_buttons_release(st, table, keys, sendErr) ==
    LET p == release_keys_from(st, keys, 1)
    IN  IF p.err # 0
        THEN [st |-> p.st, sent |-> <<>>, ret |-> p.err]
        ELSE LET s == key_report_send(p.st, table, sendErr)
             IN  [st |-> p.st, sent |-> s.sent, ret |-> s.err]

\* What the send primitives may return for each slot.
SendErrs == [Slots -> {0, -EIO}]

NoSendErr == [i \in Slots |-> 0]

\* key_report_send is not running.
NoBroadcast == [i |-> 0, seen |-> NULL]

\* The system runs until sys_poweroff().
Running == wq # "off"

\* A call of hid_buttons_press(keys, cnt).
HidButtonsPress(keys, sendErr) ==
    LET r == hid_buttons_press(hid_keyboard_state, conn_mode, keys, sendErr)
    IN  /\ hid_keyboard_state' = r.st
        /\ ret' = r.ret
        /\ UNCHANGED bc

\* A call of hid_buttons_release(keys, cnt).
HidButtonsRelease(keys, sendErr) ==
    LET r == hid_buttons_release(hid_keyboard_state, conn_mode, keys, sendErr)
    IN  /\ hid_keyboard_state' = r.st
        /\ ret' = r.ret
        /\ UNCHANGED bc

\* ------------------------------------------------------------ app_ble.c

EmptyTable == [i \in Slots |-> [conn |-> NULL, in_boot_mode |-> FALSE]]

FreeSlots(table) == {i \in Slots : table[i].conn = NULL}

\* What bt_le_adv_start may return.
AdvResults == {0, -EALREADY, -EIO}

\* What the BLE layer may pass to connected() as err.
ConnErrs == {0, BT_HCI_ERR_CONN_FAIL_TO_ESTAB}

\* What bt_hids_connected / bt_hids_disconnected may return.
HidErrs == {0, -ENOMEM}

\* advertising_start: the new value of is_adv when bt_le_adv_start returns res.
advertising_start(adv, res) == IF res # 0 THEN adv ELSE TRUE

\* store_conn with a table that gives its last slot to a client that finds
\* no empty one.
store_conn_overwrite(table, conn) ==
    IF FreeSlots(table) # {}
    THEN [table EXCEPT ![MinOf(FreeSlots(table))] = [conn |-> conn, in_boot_mode |-> FALSE]]
    ELSE [table EXCEPT ![MaxClients] = [conn |-> conn, in_boot_mode |-> FALSE]]

\* store_conn that leaves the protocol mode of the slot as it was.
store_conn_keepmode(table, conn) ==
    IF FreeSlots(table) # {}
    THEN [table EXCEPT ![MinOf(FreeSlots(table))].conn = conn]
    ELSE table

\* The first loop of connected(): the handle goes to the first empty slot.
store_conn(table, conn) ==
    IF FreeSlots(table) # {}
    THEN [table EXCEPT ![MinOf(FreeSlots(table))] = [conn |-> conn, in_boot_mode |-> FALSE]]
    ELSE table

\* clear_conn with the comparison dropped: every slot is emptied.
clear_conn_all(table, conn) ==
    [i \in Slots |-> [table[i] EXCEPT !.conn = NULL]]

\* The loop of disconnected(): every slot that holds the handle is emptied.
clear_conn(table, conn) ==
    [i \in Slots |-> IF table[i].conn = conn
                     THEN [table[i] EXCEPT !.conn = NULL]
                     ELSE table[i]]

\* connected without the return on a non-zero err.
connected_store_on_err(conn, err, hidErr, advRes) ==
    /\ Running
    /\ conn \notin live
    /\ live' = IF err = 0 THEN live \cup {conn} ELSE live
    /\ IF hidErr # 0
       THEN UNCHANGED <<conn_mode, is_adv>>
       ELSE /\ conn_mode' = store_conn(conn_mode, conn)
            /\ is_adv' = IF FreeSlots(conn_mode') # {}
                         THEN advertising_start(is_adv, advRes)
                         ELSE FALSE
    /\ UNCHANGED <<is_internal_ble_disconnect, isBle_connected>>
    /\ UNCHANGED <<kbdVars, sleepVars, btnVars>>

\* connected(conn, err); hidErr is what connect_bt_hid returns.
connected(conn, err, hidErr, advRes) ==
    /\ Running
    /\ conn \notin live
    /\ live' = IF err = 0 THEN live \cup {conn} ELSE live
    /\ IF err # 0 \/ hidErr # 0
       THEN UNCHANGED <<conn_mode, is_adv>>
       ELSE /\ conn_mode' = store_conn(conn_mode, conn)
            /\ is_adv' = IF FreeSlots(conn_mode') # {}
                         THEN advertising_start(is_adv, advRes)
                         ELSE FALSE
    /\ UNCHANGED <<is_internal_ble_disconnect, isBle_connected>>
    /\ UNCHANGED <<kbdVars, sleepVars, btnVars>>

\* disconnected that takes the early return and leaves the flag set.
disconnected_keepflag(conn, advRes) ==
    /\ Running
    /\ conn \in live
    /\ live' = live \ {conn}
    /\ IF is_internal_ble_disconnect
       THEN UNCHANGED <<conn_mode, is_adv, isBle_connected, is_internal_ble_disconnect>>
       ELSE /\ conn_mode' = clear_conn(conn_mode, conn)
            /\ isBle_connected' = FALSE
            /\ is_adv' = advertising_start(is_adv, advRes)
            /\ UNCHANGED is_internal_ble_disconnect
    /\ UNCHANGED <<kbdVars, sleepVars, btnVars>>

\* disconnected without the test of the internal-disconnect flag.
disconnected_noconsume(conn, advRes) ==
    /\ Running
    /\ conn \in live
    /\ live' = live \ {conn}
    /\ conn_mode' = clear_conn(conn_mode, conn)
    /\ isBle_connected' = FALSE
    /\ is_adv' = advertising_start(is_adv, advRes)
    /\ UNCHANGED is_internal_ble_disconnect
    /\ UNCHANGED <<kbdVars, sleepVars, btnVars>>

\* disconnected(conn, reason).
disconnected(conn, advRes) ==
    /\ Running
    /\ conn \in live
    /\ live' = live \ {conn}
    /\ IF is_internal_ble_disconnect
       THEN /\ is_internal_ble_disconnect' = FALSE
            /\ UNCHANGED <<conn_mode, is_adv, isBle_connected>>
       ELSE /\ conn_mode' = clear_conn(conn_mode, conn)
            /\ isBle_connected' = FALSE
            /\ is_adv' = advertising_start(is_adv, advRes)
            /\ UNCHANGED is_internal_ble_disconnect
    /\ UNCHANGED <<kbdVars, sleepVars, btnVars>>

\* security_changed(conn, level, err).
security_changed(conn, err) ==
    /\ Running
    /\ conn \in live
    /\ isBle_connected' = IF err = 0 THEN TRUE ELSE isBle_connected
    /\ UNCHANGED <<conn_mode, is_adv, is_internal_ble_disconnect, live>>
    /\ UNCHANGED <<kbdVars, sleepVars, btnVars>>

\* hids_pm_evt_handler that writes the mode of every occupied slot.
hids_pm_evt_handler_allslots(boot, conn) ==
    LET hit == {i \in Slots : conn_mode[i].conn = conn}
    IN  /\ Running
        /\ conn \in live
        /\ conn_mode' = IF hit = {} THEN conn_mode
                        ELSE [i \in Slots |-> IF conn_mode[i].conn # NULL
                                              THEN [conn_mode[i] EXCEPT !.in_boot_mode = boot]
                                              ELSE conn_mode[i]]
        /\ UNCHANGED <<is_adv, is_internal_ble_disconnect, isBle_connected, live>>
        /\ UNCHANGED <<kbdVars, sleepVars, btnVars>>

\* hids_pm_evt_handler(evt, conn) of app_hid.c; boot is TRUE for
\* BT_HIDS_PM_EVT_BOOT_MODE_ENTERED, FALSE for ..._REPORT_MODE_ENTERED.
hids_pm_evt_handler(boot, conn) ==
    LET hit == {i \in Slots : conn_mode[i].conn = conn}
    IN  /\ Running
        /\ conn \in live
        /\ conn_mode' = IF hit = {} THEN conn_mode
                        ELSE [conn_mode EXCEPT ![MinOf(hit)].in_boot_mode = boot]
        /\ UNCHANGED <<is_adv, is_internal_ble_disconnect, isBle_connected, live>>
        /\ UNCHANGED <<kbdVars, sleepVars, btnVars>>

\* ble_disconnect_safe, first loop: the handles that are notified to HID and
\* asked to disconnect.
ble_disconnect_safe_targets(table) == {table[i].conn : i \in Slots} \ {NULL}

\* ble_disconnect_safe, step 4: bt_le_adv_stop is called when is_adv is set.
ble_disconnect_safe_stops(adv) == adv

\* ble_disconnect_safe returns 0 on every path.
ble_disconnect_safe_ret == 0

\* ble_disconnect_safe_clear that calls bt_le_adv_stop and leaves is_adv set.
ble_disconnect_safe_clear_keepadv(stopErr) ==
    /\ wq = "sleep100"
    /\ conn_mode' = [i \in Slots |-> IF conn_mode[i].conn # NULL
                                     THEN [conn |-> NULL, in_boot_mode |-> FALSE]
                                     ELSE conn_mode[i]]
    /\ wq' = "sleep20"
    /\ UNCHANGED <<is_adv, is_internal_ble_disconnect, isBle_connected, live>>
    /\ UNCHANGED <<idle_timer, idle_work, imu_power_down, imu_enabled>>
    /\ UNCHANGED <<kbdVars, btnVars>>

\* ble_disconnect_safe, up to its first k_sleep: the flag is set and every
\* stored connection is notified to HID and asked to disconnect; hidErr and
\* discErr, what disconnect_bt_hid and bt_conn_disconnect return, are cast
\* to void.
ble_disconnect_safe_request(hidErr, discErr) ==
    /\ wq = "bds"
    /\ is_internal_ble_disconnect' = TRUE
    /\ wq' = "sleep100"
    /\ UNCHANGED <<conn_mode, is_adv, isBle_connected, live>>
    /\ UNCHANGED <<idle_timer, idle_work, imu_power_down, imu_enabled>>
    /\ UNCHANGED <<kbdVars, btnVars>>

\* ble_disconnect_safe after k_sleep(100 ms): slots are released and cleared,
\* advertising is stopped (stopErr, what bt_le_adv_stop returns, is cast to
\* void); the routine then sleeps 20 ms.
ble_disconnect_safe_clear(stopErr) ==
    /\ wq = "sleep100"
    /\ conn_mode' = [i \in Slots |-> IF conn_mode[i].conn # NULL
                                     THEN [conn |-> NULL, in_boot_mode |-> FALSE]
                                     ELSE conn_mode[i]]
    /\ is_adv' = FALSE
    /\ wq' = "sleep20"
    /\ UNCHANGED <<is_internal_ble_disconnect, isBle_connected, live>>
    /\ UNCHANGED <<idle_timer, idle_work, imu_power_down, imu_enabled>>
    /\ UNCHANGED <<kbdVars, btnVars>>

\* ble_disconnect_safe_return in an idle_work_fn that powers off without
\* its k_sleep(3000 ms).
ble_disconnect_safe_return_nograce ==
    /\ wq = "sleep20"
    /\ wq' = "poweroff"
    /\ UNCHANGED <<idle_timer, idle_work, imu_power_down, imu_enabled>>
    /\ UNCHANGED <<kbdVars, bleVars, btnVars>>

\* ble_disconnect_safe returns 0 after k_sleep(20 ms); idle_work_fn goes on
\* to its k_sleep(3000 ms).
ble_disconnect_safe_return ==
    /\ wq = "sleep20"
    /\ wq' = "grace"
    /\ UNCHANGED <<idle_timer, idle_work, imu_power_down, imu_enabled>>
    /\ UNCHANGED <<kbdVars, bleVars, btnVars>>

\* ------------------------------------------------------------ app_sleep.c

\* idle_work_fn begins on the system work queue: the IMU is powered down
\* when the build has one (imuErr, what the driver returns, is ignored).
idle_work_fn_imu(imuErr) ==
    /\ wq = "idle"
    /\ idle_work
    /\ idle_work' = FALSE
    /\ imu_power_down' = IF imu_enabled THEN TRUE ELSE imu_power_down
    /\ wq' = "bds"
    /\ UNCHANGED <<idle_timer, imu_enabled>>
    /\ UNCHANGED <<kbdVars, bleVars, btnVars>>

\* idle_work_fn: k_sleep(3000 ms) is over.
idle_work_fn_grace ==
    /\ wq = "grace"
    /\ wq' = "poweroff"
    /\ UNCHANGED <<idle_timer, idle_work, imu_power_down, imu_enabled>>
    /\ UNCHANGED <<kbdVars, bleVars, btnVars>>

\* enter_device_sleep: sys_poweroff() does not return.
enter_device_sleep ==
    /\ wq = "poweroff"
    /\ wq' = "off"
    /\ UNCHANGED <<idle_timer, idle_work, imu_power_down, imu_enabled>>
    /\ UNCHANGED <<kbdVars, bleVars, btnVars>>

\* idle_timeout: the one-shot timer expires and submits idle_work.
idle_timeout ==
    /\ Running
    /\ idle_timer = 1
    /\ idle_timer' = -1
    /\ idle_work' = TRUE
    /\ UNCHANGED <<wq, imu_power_down, imu_enabled>>
    /\ UNCHANGED <<kbdVars, bleVars, btnVars>>

\* A tick of the system clock that does not make idle_timer expire.
Tick ==
    /\ Running
    /\ idle_timer > 1
    /\ idle_timer' = idle_timer - 1
    /\ UNCHANGED <<idle_work, wq, imu_power_down, imu_enabled>>
    /\ UNCHANGED <<kbdVars, bleVars, btnVars>>

\* start_idle_timer: k_timer_start with the full timeout.
start_idle_timer == IdleTicks

\* reset_idle_timer that leaves the running timer its old deadline.
reset_idle_timer_short == IdleTicks - 1

\* reset_idle_timer: stop_idle_timer, then start_idle_timer.
reset_idle_timer == start_idle_timer

\* A call of reset_idle_timer() by any module.
reset_idle_timer_call ==
    /\ Running
    /\ idle_timer' = reset_idle_timer
    /\ UNCHANGED <<idle_work, wq, imu_power_down, imu_enabled>>
    /\ UNCHANGED <<kbdVars, bleVars, btnVars>>

\* ------------------------------------------------------------ app_button.c

\* button_isr that queues the level itself at every edge, without waiting
\* for the debounce delay.
button_isr_enqueue ==
    /\ Running
    /\ pin' = ~pin
    /\ BUTTON_PIN' = 1
    /\ button_work' = TRUE
    /\ Button_queue' = IF Len(Button_queue) < BUTTON_QUEUE_LEN
                       THEN Append(Button_queue, pin') ELSE Button_queue
    /\ UNCHANGED <<btn, LATCH_RESET_BUTTON>>
    /\ UNCHANGED latchVars
    /\ UNCHANGED <<kbdVars, bleVars, sleepVars>>

\* button_isr that also re-arms the idle timer.
button_isr_reset_timer ==
    /\ Running
    /\ pin' = ~pin
    /\ BUTTON_PIN' = 1
    /\ button_work' = TRUE
    /\ idle_timer' = IF btn = "start" THEN idle_timer ELSE reset_idle_timer
    /\ UNCHANGED <<idle_work, wq, imu_power_down, imu_enabled>>
    /\ UNCHANGED <<btn, Button_queue, LATCH_RESET_BUTTON>>
    /\ UNCHANGED latchVars
    /\ UNCHANGED <<kbdVars, bleVars>>

\* The button GPIO changes level and button_isr runs (both edges interrupt).
button_isr ==
    /\ Running
    /\ pin' = ~pin
    /\ BUTTON_PIN' = 1
    /\ button_work' = TRUE
    /\ UNCHANGED <<btn, Button_queue, LATCH_RESET_BUTTON>>
    /\ UNCHANGED latchVars
    /\ UNCHANGED <<kbdVars, bleVars, sleepVars>>

\* k_msgq_put that makes room in a full queue by dropping the oldest message.
k_msgq_put_overwrite(q, m) ==
    IF Len(q) < BUTTON_QUEUE_LEN THEN Append(q, m) ELSE Append(Tail(q), m)

\* k_msgq_put(..., K_NO_WAIT): a full queue drops the message.
k_msgq_put(q, m) == IF Len(q) < BUTTON_QUEUE_LEN THEN Append(q, m) ELSE q

\* button_work_handler, run by the system work queue when the debounce
\* delay is over.
button_work_handler ==
    /\ wq = "idle"
    /\ button_work
    /\ button_work' = FALSE
    /\ Button_queue' = k_msgq_put(Button_queue, pin)
    /\ UNCHANGED <<btn, pin, BUTTON_PIN, LATCH_RESET_BUTTON>>
    /\ UNCHANGED latchVars
    /\ UNCHANGED <<kbdVars, bleVars, sleepVars>>

\* button_thread_fn starts: start_idle_timer().
button_thread_start ==
    /\ Running
    /\ btn = "start"
    /\ btn' = "wait"
    /\ idle_timer' = start_idle_timer
    /\ UNCHANGED <<idle_work, wq, imu_power_down, imu_enabled>>
    /\ UNCHANGED <<pin, BUTTON_PIN, button_work, Button_queue, LATCH_RESET_BUTTON>>
    /\ UNCHANGED latchVars
    /\ UNCHANGED <<kbdVars, bleVars>>

\* button_thread_connected that sends the space tap whatever the wake flag is.
button_thread_connected_alwaystap ==
    /\ Running
    /\ btn = "wait"
    /\ isBle_connected
    /\ btn' = "tap_press"
    /\ LATCH_RESET_BUTTON' = FALSE
    /\ UNCHANGED latchVars
    /\ UNCHANGED <<pin, BUTTON_PIN, button_work, Button_queue>>
    /\ UNCHANGED <<kbdVars, bleVars, sleepVars>>

\* button_thread_fn leaves its wait loop once isBle_connected is seen true,
\* and consumes the wake flag.
button_thread_connected ==
    /\ Running
    /\ btn = "wait"
    /\ isBle_connected
    /\ btn' = IF LATCH_RESET_BUTTON THEN "tap_press" ELSE "loop"
    /\ LATCH_RESET_BUTTON' = FALSE
    /\ UNCHANGED latchVars
    /\ UNCHANGED <<pin, BUTTON_PIN, button_work, Button_queue>>
    /\ UNCHANGED <<kbdVars, bleVars, sleepVars>>

\* onButton_reset_send_spaceBar: hid_buttons_press(&key, 1).
space_tap_press(sendErr) ==
    /\ Running
    /\ btn = "tap_press"
    /\ btn' = "tap_release"
    /\ hid_keyboard_state' = hid_buttons_press(hid_keyboard_state, conn_mode, <<HID_KEY_SPACE>>, sendErr).st
    /\ UNCHANGED <<ret, bc>>
    /\ UNCHANGED <<pin, BUTTON_PIN, button_work, Button_queue, LATCH_RESET_BUTTON>>
    /\ UNCHANGED latchVars
    /\ UNCHANGED <<bleVars, sleepVars>>

\* onButton_reset_send_spaceBar: hid_buttons_release(&key, 1).
space_tap_release(sendErr) ==
    /\ Running
    /\ btn = "tap_release"
    /\ btn' = "loop"
    /\ hid_keyboard_state' = hid_buttons_release(hid_keyboard_state, conn_mode, <<HID_KEY_SPACE>>, sendErr).st
    /\ UNCHANGED <<ret, bc>>
    /\ UNCHANGED <<pin, BUTTON_PIN, button_work, Button_queue, LATCH_RESET_BUTTON>>
    /\ UNCHANGED latchVars
    /\ UNCHANGED <<bleVars, sleepVars>>

\* button_text_changed(down, &key): the return value of the HID call is
\* discarded.
button_text_changed(st, table, down, key, sendErr) ==
    IF down
    THEN hid_buttons_press(st, table, <<key>>, sendErr).st
    ELSE hid_buttons_release(st, table, <<key>>, sendErr).st

\* button_thread_loop with a reset_idle_timer that also cancels idle_work.
button_thread_loop_cancel(sendErr) ==
    /\ Running
    /\ btn = "loop"
    /\ Button_queue # <<>>
    /\ Button_queue' = Tail(Button_queue)
    /\ IF ~isBle_connected
       THEN UNCHANGED <<hid_keyboard_state, idle_timer, idle_work>>
       ELSE /\ idle_timer' = reset_idle_timer
            /\ idle_work' = FALSE
            /\ hid_keyboard_state' =
                  IF BUTTON_PIN = 1
                  THEN button_text_changed(hid_keyboard_state, conn_mode,
                                           Head(Button_queue), HID_KEY_H, sendErr)
                  ELSE hid_keyboard_state
    /\ UNCHANGED <<ret, bc>>
    /\ UNCHANGED <<btn, pin, BUTTON_PIN, button_work, LATCH_RESET_BUTTON>>
    /\ UNCHANGED latchVars
    /\ UNCHANGED <<wq, imu_power_down, imu_enabled>>
    /\ UNCHANGED bleVars

\* button_thread_loop that leaves the for (;;) loop when the HID call of an
\* event returns an error.
button_thread_loop_stop(sendErr) ==
    LET down == Head(Button_queue)
        r == IF down
             THEN hid_buttons_press(hid_keyboard_state, conn_mode, <<HID_KEY_H>>, sendErr)
             ELSE hid_buttons_release(hid_keyboard_state, conn_mode, <<HID_KEY_H>>, sendErr)
    IN  /\ Running
        /\ btn = "loop"
        /\ Button_queue # <<>>
        /\ Button_queue' = Tail(Button_queue)
        /\ IF ~isBle_connected
           THEN UNCHANGED <<hid_keyboard_state, idle_timer, btn>>
           ELSE /\ idle_timer' = reset_idle_timer
                /\ hid_keyboard_state' = IF BUTTON_PIN = 1 THEN r.st ELSE hid_keyboard_state
                /\ btn' = IF BUTTON_PIN = 1 /\ r.ret # 0 THEN "stopped" ELSE btn
        /\ UNCHANGED <<ret, bc>>
        /\ UNCHANGED <<pin, BUTTON_PIN, button_work, LATCH_RESET_BUTTON>>
        /\ UNCHANGED latchVars
        /\ UNCHANGED <<idle_work, wq, imu_power_down, imu_enabled>>
        /\ UNCHANGED bleVars

\* One turn of the for (;;) loop of button_thread_fn.
button_thread_loop(sendErr) ==
    /\ Running
    /\ btn = "loop"
    /\ Button_queue # <<>>
    /\ Button_queue' = Tail(Button_queue)
    /\ IF ~isBle_connected
       THEN UNCHANGED <<hid_keyboard_state, idle_timer>>
       ELSE /\ idle_timer' = reset_idle_timer
            /\ hid_keyboard_state' =
                  IF BUTTON_PIN = 1
                  THEN button_text_changed(hid_keyboard_state, conn_mode,
                                           Head(Button_queue), HID_KEY_H, sendErr)
                  ELSE hid_keyboard_state
    /\ UNCHANGED <<ret, bc>>
    /\ UNCHANGED <<btn, pin, BUTTON_PIN, button_work, LATCH_RESET_BUTTON>>
    /\ UNCHANGED latchVars
    /\ UNCHANGED <<idle_work, wq, imu_power_down, imu_enabled>>
    /\ UNCHANGED bleVars

\* Bit number of the button in the latch register (from the devicetree).
USER_BUTTON_PIN == 1

\* The bits of the latch register that are followed.
LatchBitSet == 0..(NumLatchBits - 1)

\* read_latch_register with a write of all ones in place of the snapshot.
read_latch_register_clearall(snapshot) ==
    [flag_set |-> snapshot # {} /\ USER_BUTTON_PIN \in snapshot,
     write |-> [done |-> snapshot # {}, value |-> LatchBitSet],
     ret |-> 0]

\* read_latch_register on the snapshot lat: whether LATCH_RESET_BUTTON is
\* set, what is written to NRF_P0->LATCH, and the return value.
read_latch_register(snapshot) ==
    [flag_set |-> snapshot # {} /\ USER_BUTTON_PIN \in snapshot,
     write |-> [done |-> snapshot # {}, value |-> snapshot],
     ret |-> 0]

\* read_latch_register: uint32_t lat = NRF_P0->LATCH.
read_latch_snapshot ==
    /\ latch_pc = "boot"
    /\ lat' = NRF_P0_LATCH
    /\ latch_pc' = "read"
    /\ UNCHANGED <<btn, pin, BUTTON_PIN, button_work, Button_queue, LATCH_RESET_BUTTON, NRF_P0_LATCH>>
    /\ UNCHANGED <<kbdVars, bleVars, sleepVars>>

\* read_latch_register from if (lat) to return 0; a 1 written to a latch
\* bit clears it, a 0 leaves it.
read_latch_write ==
    LET r == read_latch_register(lat)
    IN  /\ latch_pc = "read"
        /\ LATCH_RESET_BUTTON' = IF r.flag_set THEN TRUE ELSE LATCH_RESET_BUTTON
        /\ NRF_P0_LATCH' = IF r.write.done THEN NRF_P0_LATCH \ r.write.value
                           ELSE NRF_P0_LATCH
        /\ lat' = {}
        /\ latch_pc' = "done"
        /\ UNCHANGED <<btn, pin, BUTTON_PIN, button_work, Button_queue>>
        /\ UNCHANGED <<kbdVars, bleVars, sleepVars>>

\* The hardware asserts latch bit b.
latch_assert(b) ==
    /\ b \notin NRF_P0_LATCH
    /\ NRF_P0_LATCH' = NRF_P0_LATCH \cup {b}
    /\ UNCHANGED <<btn, pin, BUTTON_PIN, button_work, Button_queue, LATCH_RESET_BUTTON, lat, latch_pc>>
    /\ UNCHANGED <<kbdVars, bleVars, sleepVars>>

\* ------------------------------------------------------------ boot

\* The application state when main() has initialised the system and started
\* the button thread; is_adv tells whether enable_bt() could start
\* advertising.
BootApp ==
    /\ hid_keyboard_state = EmptyKeyboard
    /\ ret = 0
    /\ bc = NoBroadcast
    /\ conn_mode = EmptyTable
    /\ is_adv \in BOOLEAN
    /\ is_internal_ble_disconnect = FALSE
    /\ isBle_connected = FALSE
    /\ live = {}
    /\ idle_timer = -1
    /\ idle_work = FALSE
    /\ wq = "idle"
    /\ imu_power_down = FALSE
    /\ imu_enabled \in BOOLEAN
    /\ btn = "start"
    /\ pin = FALSE
    /\ BUTTON_PIN = 0
    /\ button_work = FALSE
    /\ Button_queue = <<>>

\* The state after boot: read_latch_register has run and has or has not found
\* the button bit.
Boot ==
    /\ BootApp
    /\ LATCH_RESET_BUTTON \in BOOLEAN
    /\ NRF_P0_LATCH = {}
    /\ lat = {}
    /\ latch_pc = "done"

NoEvent == [op |-> "none"]

NoRoundTrip == [phase |-> 0]

\* No connect callback yet, and no disconnect either.
NobodyJoined == [clean |-> TRUE, conns |-> <<>>]

\* Somebody has disconnected: the run of connects is over.
Disturbed == [clean |-> FALSE, conns |-> <<>>]

HistBoot ==
    /\ ev = NoEvent
    /\ rt = NoRoundTrip
    /\ ctrl_last = {}
    /\ run = <<>>
    /\ joined = NobodyJoined
    /\ steps = <<>>
    /\ burst = 0
    /\ tags = <<>>

\* ------------------------------------------------------------ keyboard calls

\* Whether the report bytes show key k as held: its modifier bit for a
\* control code, a key slot holding it for any other non-zero code.
IsHeld(bytes, k) ==
    IF k \in KEY_CTRL_CODE_MIN..KEY_CTRL_CODE_MAX
    THEN Bit(bytes[1], k - KEY_CTRL_CODE_MIN) = 1
    ELSE k # 0 /\ \E i \in 3..(2 + KEY_PRESS_MAX) : bytes[i] = k

\* History kept for a press of the single key k.
PressHistory(k, sendErr) ==
    LET r == hid_buttons_press(hid_keyboard_state, conn_mode, <<k>>, sendErr)
    IN  /\ ev' = [op |-> "press", key |-> k,
                  err |-> hid_kbd_state_key_set(hid_keyboard_state, k).err,
                  before |-> ReportBytes(hid_keyboard_state)]
        /\ UNCHANGED btnHist
        /\ rt' = [phase |-> 1, key |-> k, before |-> ReportBytes(hid_keyboard_state),
                  table |-> conn_mode, sent1 |-> r.sent, sent2 |-> <<>>]
        /\ ctrl_last' = IF k \in KEY_CTRL_CODE_MIN..KEY_CTRL_CODE_MAX
                        THEN ctrl_last \cup {k} ELSE ctrl_last

\* History kept for a release of the single key k.
ReleaseHistory(k, sendErr) ==
    LET r == hid_buttons_release(hid_keyboard_state, conn_mode, <<k>>, sendErr)
    IN  /\ ev' = [op |-> "release", key |-> k,
                  err |-> hid_kbd_state_key_clear(hid_keyboard_state, k).err,
                  before |-> ReportBytes(hid_keyboard_state)]
        /\ UNCHANGED btnHist
        /\ rt' = IF rt.phase = 1 /\ rt.key = k /\ rt.table = conn_mode
                 THEN [rt EXCEPT !.phase = 2, !.sent2 = r.sent]
                 ELSE NoRoundTrip
        /\ ctrl_last' = IF k \in KEY_CTRL_CODE_MIN..KEY_CTRL_CODE_MAX
                        THEN ctrl_last \ {k} ELSE ctrl_last

\* The application calls hid_buttons_press(&k, 1).
KbdPress(k) ==
    /\ HidButtonsPress(<<k>>, NoSendErr)
    /\ PressHistory(k, NoSendErr)
    /\ UNCHANGED <<run, joined, steps>>
    /\ UNCHANGED <<bleVars, sleepVars, btnVars>>

\* The application calls hid_buttons_release(&k, 1).
KbdRelease(k) ==
    /\ HidButtonsRelease(<<k>>, NoSendErr)
    /\ ReleaseHistory(k, NoSendErr)
    /\ UNCHANGED <<run, joined, steps>>
    /\ UNCHANGED <<bleVars, sleepVars, btnVars>>

InitKbd ==
    /\ Boot
    /\ is_adv
    /\ ~imu_enabled
    /\ ~LATCH_RESET_BUTTON
    /\ HistBoot

NextKbd == \E k \in KbdKeys : KbdPress(k) \/ KbdRelease(k)

\* Any sequence of single-key press and release calls, no client connected.
SpecKbd == InitKbd /\ [][NextKbd]_vars

NextMod == \E k \in ModKeys : KbdPress(k) \/ KbdRelease(k)

\* Any sequence of press and release calls around the control-code range.
SpecMod == InitKbd /\ [][NextMod]_vars

\* One more distinct key is pressed, none released, until one press more
\* than there are key slots has been made.
FillPress(k) ==
    /\ Len(run) <= KEY_PRESS_MAX
    /\ \A i \in 1..Len(run) : run[i] # k
    /\ HidButtonsPress(<<k>>, NoSendErr)
    /\ PressHistory(k, NoSendErr)
    /\ run' = Append(run, k)
    /\ UNCHANGED <<joined, steps>>
    /\ UNCHANGED <<bleVars, sleepVars, btnVars>>

NextFill == \E k \in FillKeys : FillPress(k)

\* Distinct non-control keys pressed one after the other from the empty state.
SpecFill == InitKbd /\ [][NextFill]_vars

\* ------------------------------------------------------------ observed steps
\* Each step of the program together with the history it leaves.

\* A step that is not looked at: it ends a press/release pair and leaves no
\* other history.
NoKbdHistory ==
    /\ ev' = NoEvent
    /\ UNCHANGED btnHist
    /\ rt' = NoRoundTrip
    /\ UNCHANGED <<ctrl_last, run, joined, steps>>

\* connected(): whether connect_bt_hid(conn) is called.
connected_notifies(err) == err = 0

\* connected(): whether advertising_start() is called, which is when the
\* second loop is reached and finds an empty slot.
connected_restarts(table, conn, err, hidErr) ==
    err = 0 /\ hidErr = 0 /\ FreeSlots(store_conn(table, conn)) # {}

Connected(conn, err, hidErr, advRes) ==
    /\ connected(conn, err, hidErr, advRes)
    /\ ev' = [op |-> "connected", conn |-> conn, err |-> err, hidErr |-> hidErr,
              advRes |-> advRes, before |-> conn_mode, adv |-> is_adv,
              notified |-> connected_notifies(err),
              restarted |-> connected_restarts(conn_mode, conn, err, hidErr)]
    /\ UNCHANGED btnHist
    /\ joined' = IF joined.clean /\ err = 0 /\ hidErr = 0
                 THEN [joined EXCEPT !.conns = Append(@, conn)]
                 ELSE joined
    /\ rt' = NoRoundTrip
    /\ UNCHANGED <<ctrl_last, run>>
    /\ UNCHANGED steps

Disconnected(conn, advRes) ==
    /\ disconnected(conn, advRes)
    /\ ev' = [op |-> "disconnected", conn |-> conn, advRes |-> advRes,
              internal |-> is_internal_ble_disconnect, before |-> conn_mode,
              adv |-> is_adv, secured |-> isBle_connected]
    /\ UNCHANGED btnHist
    /\ joined' = Disturbed
    /\ rt' = NoRoundTrip
    /\ UNCHANGED <<ctrl_last, run>>
    /\ UNCHANGED steps


PmEvt(boot, conn) ==
    /\ hids_pm_evt_handler(boot, conn)
    /\ ev' = [op |-> "pm_evt", conn |-> conn, boot |-> boot, before |-> conn_mode]
    /\ UNCHANGED btnHist
    /\ rt' = NoRoundTrip
    /\ UNCHANGED <<ctrl_last, run>>
    /\ UNCHANGED <<joined, steps>>

\* What the teardown may touch: the app's BLE state, the IMU flag, the
\* position of the work-queue thread and the steps taken so far.
TeardownView == <<conn_mode, is_adv, is_internal_ble_disconnect, imu_power_down, wq, steps>>

IdleTimeout ==
    /\ idle_timeout
    /\ ev' = [op |-> "idle_timeout", view |-> TeardownView]
    /\ UNCHANGED btnHist
    /\ rt' = NoRoundTrip
    /\ UNCHANGED <<ctrl_last, run>>
    /\ UNCHANGED <<joined, steps>>


IdleWorkImu(imuErr) ==
    /\ idle_work_fn_imu(imuErr)
    /\ ev' = [op |-> "idle_work_fn"]
    /\ UNCHANGED btnHist
    /\ steps' = IF imu_enabled THEN Append(steps, "imu") ELSE steps
    /\ rt' = NoRoundTrip
    /\ UNCHANGED <<ctrl_last, run>>
    /\ UNCHANGED joined

BdsRequest(hidErr, discErr) ==
    /\ ble_disconnect_safe_request(hidErr, discErr)
    /\ ev' = [op |-> "bds_request", before |-> conn_mode,
              targets |-> ble_disconnect_safe_targets(conn_mode)]
    /\ UNCHANGED btnHist
    /\ steps' = Append(steps, "bds_call")
    /\ rt' = NoRoundTrip
    /\ UNCHANGED <<ctrl_last, run>>
    /\ UNCHANGED joined

BdsClear(stopErr) ==
    /\ ble_disconnect_safe_clear(stopErr)
    /\ ev' = [op |-> "bds_clear", before |-> conn_mode, adv |-> is_adv,
              stop |-> ble_disconnect_safe_stops(is_adv)]
    /\ UNCHANGED btnHist
    /\ joined' = Disturbed
    /\ rt' = NoRoundTrip
    /\ UNCHANGED <<ctrl_last, run>>
    /\ UNCHANGED steps

BdsReturn ==
    /\ ble_disconnect_safe_return
    /\ ev' = [op |-> "bds_return", ret |-> ble_disconnect_safe_ret]
    /\ UNCHANGED btnHist
    /\ steps' = Append(steps, "bds_return")
    /\ rt' = NoRoundTrip
    /\ UNCHANGED <<ctrl_last, run>>
    /\ UNCHANGED joined

GraceOver ==
    /\ idle_work_fn_grace
    /\ ev' = [op |-> "grace"]
    /\ UNCHANGED btnHist
    /\ steps' = Append(steps, "grace")
    /\ rt' = NoRoundTrip
    /\ UNCHANGED <<ctrl_last, run>>
    /\ UNCHANGED joined

SystemOff ==
    /\ enter_device_sleep
    /\ ev' = [op |-> "system_off"]
    /\ UNCHANGED btnHist
    /\ steps' = Append(steps, "off")
    /\ rt' = NoRoundTrip
    /\ UNCHANGED <<ctrl_last, run>>
    /\ UNCHANGED joined

\* The environment toggles the button, MaxEdges times at most.
ButtonEdge ==
    /\ Len(run) < MaxEdges
    /\ button_isr
    /\ run' = Append(run, pin')
    /\ ev' = NoEvent
    /\ UNCHANGED btnHist
    /\ rt' = NoRoundTrip
    /\ UNCHANGED <<ctrl_last, joined, steps>>

\* ------------------------------------------------------------ specifications

InitBle ==
    /\ Boot
    /\ ~imu_enabled
    /\ ~LATCH_RESET_BUTTON
    /\ HistBoot

\* The callbacks of the BLE stack.
NextBle ==
    \/ \E c \in Conns, e \in ConnErrs, h \in HidErrs, a \in AdvResults : Connected(c, e, h, a)
    \/ \E c \in Conns, a \in AdvResults : Disconnected(c, a)
    \/ \E c \in Conns, b \in BOOLEAN : PmEvt(b, c)

\* Connects, disconnects and protocol-mode events in any order.
SpecBle == InitBle /\ [][NextBle]_vars

\* The application calls hid_buttons_press(&k, 1) with clients in the table.
AppPress(k, sendErr) ==
    /\ Running
    /\ HidButtonsPress(<<k>>, sendErr)
    /\ PressHistory(k, sendErr)
    /\ UNCHANGED <<run, joined, steps>>
    /\ UNCHANGED <<bleVars, sleepVars, btnVars>>

\* The application calls hid_buttons_release(&k, 1) with clients in the table.
AppRelease(k, sendErr) ==
    /\ Running
    /\ HidButtonsRelease(<<k>>, sendErr)
    /\ ReleaseHistory(k, sendErr)
    /\ UNCHANGED <<run, joined, steps>>
    /\ UNCHANGED <<bleVars, sleepVars, btnVars>>

\* The key at the end of the pipeline goes down when it is up and up when it
\* is down.
KeyDown(k, sendErr) ==
    /\ ~IsHeld(ReportBytes(hid_keyboard_state), k)
    /\ AppPress(k, sendErr)

KeyUp(k, sendErr) ==
    /\ IsHeld(ReportBytes(hid_keyboard_state), k)
    /\ AppRelease(k, sendErr)

NextE2E ==
    \/ \E c \in Conns, e \in ConnErrs, h \in HidErrs, a \in AdvResults :
          connected(c, e, h, a) /\ NoKbdHistory
    \/ \E c \in Conns, a \in AdvResults : disconnected(c, a) /\ NoKbdHistory
    \/ \E c \in Conns, b \in BOOLEAN : hids_pm_evt_handler(b, c) /\ NoKbdHistory
    \/ \E se \in SendErrs : KeyDown(HID_KEY_A, se)
    \/ \E se \in SendErrs : KeyUp(HID_KEY_A, se)

\* Clients come and go while the application presses and releases a key.
SpecE2E == InitBle /\ [][NextE2E]_vars

\* The one client of the sleep specifications.
SleepConns == {1}

\* What lsm6dso_accel_gyro_power_down may report.
ImuErrs == {0, -EIO}

\* What bt_conn_disconnect may return.
DiscErrs == {0, -ENOTCONN}

\* What bt_le_adv_stop may return.
StopErrs == {0, -EALREADY}

InitSleep == Boot /\ HistBoot

\* The steps of the system work queue from idle_work_fn to sys_poweroff().
TeardownStep ==
    \/ \E e \in ImuErrs : IdleWorkImu(e)
    \/ \E h \in HidErrs, e \in DiscErrs : BdsRequest(h, e)
    \/ \E e \in StopErrs : BdsClear(e)
    \/ BdsReturn
    \/ GraceOver
    \/ SystemOff

NextSleep ==
    \/ button_thread_start /\ NoKbdHistory
    \/ Tick /\ NoKbdHistory
    \/ IdleTimeout
    \/ TeardownStep
    \/ ButtonEdge
    \/ button_work_handler /\ NoKbdHistory
    \/ button_thread_connected /\ NoKbdHistory
    \/ \E se \in SendErrs : space_tap_press(se) /\ NoKbdHistory
    \/ \E se \in SendErrs : space_tap_release(se) /\ NoKbdHistory
    \/ \E se \in SendErrs : button_thread_loop(se) /\ NoKbdHistory
    \/ \E c \in SleepConns, e \in ConnErrs, h \in HidErrs, a \in AdvResults :
          connected(c, e, h, a) /\ NoKbdHistory
    \/ \E c \in SleepConns, a \in AdvResults : disconnected(c, a) /\ NoKbdHistory
    \/ \E c \in SleepConns, e \in ConnErrs : security_changed(c, e) /\ NoKbdHistory

\* The whole program with one client: button, idle timer and teardown.
SpecSleep == InitSleep /\ [][NextSleep]_vars

\* The system work queue runs a submitted item when it is free, and a
\* k_sleep of its thread ends.
SpecSleepFair ==
    /\ SpecSleep
    /\ WF_vars(\E e \in ImuErrs : IdleWorkImu(e))
    /\ WF_vars(\E h \in HidErrs, e \in DiscErrs : BdsRequest(h, e))
    /\ WF_vars(\E e \in StopErrs : BdsClear(e))
    /\ WF_vars(BdsReturn)
    /\ WF_vars(GraceOver)
    /\ WF_vars(SystemOff)

\* ------------------------------------------------------------ claims C1-C5

KeysState == hid_keyboard_state.keys_state

\* C1: the six-entry pressed-key array never holds the same non-zero key
\* code in two slots, after any sequence of press and release calls.
C1_NoDuplicateKeys ==
    \A i, j \in 1..KEY_PRESS_MAX :
        (i # j /\ KeysState[i] # 0) => KeysState[i] # KeysState[j]

\* The OR of the masks 1 << (code - 224) of the control codes in S.
RECURSIVE OrOfMasks(_)
OrOfMasks(S) ==
    IF S = {} THEN 0
    ELSE LET c == CHOOSE x \in S : TRUE
         IN  BitOr8(Pow2(c - KEY_CTRL_CODE_MIN), OrOfMasks(S \ {c}))

\* C2: the modifier byte equals the OR of the masks of exactly those control
\* codes whose last operation was a press (so a call with a non-control code,
\* which leaves that set alone, leaves the modifier byte alone).
C2_ModifierIsOrOfPressed ==
    hid_keyboard_state.ctrl_keys_state = OrOfMasks(ctrl_last)

C2_Witness ==
    /\ ev.op = "release"
    /\ ev.key = KEY_CTRL_CODE_MIN
    /\ IsHeld(ev.before, KEY_CTRL_CODE_MIN)
    /\ ctrl_last = {KEY_CTRL_CODE_MAX}
    /\ \E i \in 1..KEY_PRESS_MAX : KeysState[i] = KEY_CTRL_CODE_MAX + 1

\* C3 as stated: press(k) directly followed by release(k) leaves the 8 report
\* bytes equal to the bytes before the press, for every state and every k.
C3_RoundTripAlways ==
    rt.phase = 2 => ReportBytes(hid_keyboard_state) = rt.before

\* C3 amended: press(k) directly followed by release(k) restores the 8 report
\* bytes whenever k was not held before the press.
C3_RoundTripWhenNotHeld ==
    (rt.phase = 2 /\ ~IsHeld(rt.before, rt.key))
        => ReportBytes(hid_keyboard_state) = rt.before

C3_Witness ==
    /\ rt.phase = 2
    /\ rt.key = HID_KEY_A
    /\ ~IsHeld(rt.before, HID_KEY_A)
    /\ rt.before[1] # 0
    /\ rt.before[4] # 0 /\ rt.before[3] = 0

\* C4: from the empty state, of 7 distinct non-control keys pressed without a
\* release the first 6 succeed and fill the six slots in order, the 7th fails
\* with -EBUSY, and the first 6 are still in the array after the failure.
C4_SeventhPressFails ==
    /\ Len(run) \in 1..KEY_PRESS_MAX =>
           /\ ret = 0
           /\ \A i \in 1..Len(run) : KeysState[i] = run[i]
    /\ Len(run) = KEY_PRESS_MAX + 1 =>
           /\ ret = -EBUSY
           /\ \A i \in 1..KEY_PRESS_MAX : KeysState[i] = run[i]

C4_Witness ==
    /\ Len(run) = KEY_PRESS_MAX + 1
    /\ ev.op = "press"
    /\ ev.key = run[KEY_PRESS_MAX + 1]

Handles(table) == {table[i].conn : i \in Slots} \ {NULL}

Occupied(table) == {i \in Slots : table[i].conn # NULL}

\* C6: once K+1 distinct clients have connected successfully and nobody has
\* disconnected, exactly K slots are occupied, they hold the first K handles
\* in order, the (K+1)-th handle is in no slot and is_adv is false.
C6_ExtraClientNotStored ==
    (joined.clean /\ Len(joined.conns) = MaxClients + 1)
        => /\ Cardinality(Occupied(conn_mode)) = MaxClients
           /\ \A i \in Slots : conn_mode[i].conn = joined.conns[i]
           /\ joined.conns[MaxClients + 1] \notin Handles(conn_mode)
           /\ ~is_adv

C6_Witness ==
    /\ joined.clean
    /\ Len(joined.conns) = MaxClients + 1
    /\ ev.op = "connected"
    /\ ev.conn = joined.conns[MaxClients + 1]

\* C7: when the table is full and a stored client disconnects while the
\* internal-disconnect flag is clear (a peer-initiated disconnect), its slot
\* becomes empty, every other slot is unchanged, and advertising_start() is
\* called: is_adv is true once bt_le_adv_start accepts the request.
C7_DisconnectFreesSlot ==
    (/\ ev.op = "disconnected"
     /\ ~ev.internal
     /\ Occupied(ev.before) = Slots
     /\ ev.conn \in Handles(ev.before))
        => /\ \A i \in Slots :
                conn_mode[i] = IF ev.before[i].conn = ev.conn
                               THEN [ev.before[i] EXCEPT !.conn = NULL]
                               ELSE ev.before[i]
           /\ \E i \in Slots : conn_mode[i].conn = NULL
           /\ ev.advRes = 0 => is_adv

C7_Witness ==
    /\ ev.op = "disconnected"
    /\ ~ev.internal
    /\ Occupied(ev.before) = Slots
    /\ ev.conn \in Handles(ev.before)
    /\ \E i \in Slots : ev.before[i].in_boot_mode
    /\ ev.advRes = 0
    /\ is_adv

\* ------------------------------------------------------------ claim C8

ZeroReport == [i \in 1..(2 + KEY_PRESS_MAX) |-> 0]

\* The one report-mode or boot-mode send that carries data to conn.
OnlySendTo(sent, conn, data) ==
    /\ Len(sent) = 1
    /\ sent[1].conn = conn
    /\ sent[1].data = data

\* C8: with exactly one client in the table and an empty keyboard state, a
\* press of A sends exactly one report, [0,0,A,0,0,0,0,0], to that client's
\* handle, and the release of A that follows sends exactly one all-zero
\* report to the same handle; no other handle is sent anything.
C8_PressReleaseReports ==
    (/\ rt.phase = 2
     /\ rt.key = HID_KEY_A
     /\ rt.before = ZeroReport
     /\ Cardinality(Occupied(rt.table)) = 1)
        => \E i \in Slots :
              /\ rt.table[i].conn # NULL
              /\ OnlySendTo(rt.sent1, rt.table[i].conn, [ZeroReport EXCEPT ![3] = HID_KEY_A])
              /\ OnlySendTo(rt.sent2, rt.table[i].conn, ZeroReport)

C8_Witness ==
    /\ rt.phase = 2
    /\ rt.key = HID_KEY_A
    /\ rt.before = ZeroReport
    /\ Cardinality(Occupied(rt.table)) = 1
    /\ rt.table[MaxClients].conn # NULL
    /\ Len(rt.sent2) = 1
    /\ rt.sent2[1].err = 0

\* ------------------------------------------------------------ claims C9-C10

IsPrefix(s, t) == Len(s) <= Len(t) /\ \A i \in 1..Len(s) : s[i] = t[i]

\* The teardown steps in the order idle_work_fn takes them.
ExpectedSteps ==
    (IF imu_enabled THEN <<"imu">> ELSE <<>>) \o <<"bds_call", "bds_return", "grace", "off">>

\* C9: the teardown steps happen in the order IMU power-down (when the build
\* has an IMU), ble_disconnect_safe, the grace wait, system-off; system-off
\* is entered only after ble_disconnect_safe has returned; and the expiry of
\* the idle timer does none of the steps, it only submits idle_work.
C9_TeardownOrder ==
    /\ IsPrefix(steps, ExpectedSteps)
    /\ wq = "off" => steps = ExpectedSteps
    /\ (imu_enabled /\ steps # <<>>) => imu_power_down
    /\ ev.op = "idle_timeout" => (TeardownView = ev.view /\ idle_work)

C9_Witness ==
    /\ wq = "off"
    /\ imu_enabled
    /\ imu_power_down
    /\ steps = ExpectedSteps

\* C10: once the idle timer has expired and idle_work is submitted, the
\* system eventually enters system-off, whatever resets of the idle timer
\* and whatever errors of the IMU or of the sends come later.
C10_EventuallyOff == idle_work ~> (wq = "off")

C10_Witness ==
    /\ wq = "off"
    /\ idle_timer > 0
    /\ isBle_connected

\* ------------------------------------------------------------ claim C11

\* Events logged by the timer specification.
MaxTimerLog == 2 * IdleTicks + 3

TimerQuiet ==
    /\ ev' = NoEvent
    /\ UNCHANGED btnHist
    /\ rt' = NoRoundTrip
    /\ UNCHANGED <<ctrl_last, joined, steps>>

\* The button thread arms the timer: tick 0.
TimerArm ==
    /\ button_thread_start
    /\ run' = <<"arm">>
    /\ TimerQuiet

\* A tick passes and the timer goes on running.
TimerTick ==
    /\ Len(run) < MaxTimerLog
    /\ Tick
    /\ run' = Append(run, "tick")
    /\ TimerQuiet

\* A tick passes and the timer expires.
TimerFire ==
    /\ Len(run) < MaxTimerLog
    /\ idle_timeout
    /\ run' = Append(run, "fire")
    /\ TimerQuiet

TimerReset ==
    /\ run # <<>>
    /\ Len(run) < MaxTimerLog
    /\ reset_idle_timer_call
    /\ run' = Append(run, "reset")
    /\ TimerQuiet

NextTimer == TimerArm \/ TimerTick \/ TimerFire \/ TimerReset

\* The idle timer alone: armed, ticking, reset at any time, expiring.
SpecTimer == InitBle /\ [][NextTimer]_vars

\* n ticks of a running timer
Ticks(n) == [i \in 1..n |-> "tick"]

\* Armed at tick 0 and reset at tick T-1.
ResetOneTickBeforeExpiry == <<"arm">> \o Ticks(IdleTicks - 1) \o <<"reset">>

\* What the log holds after its first n entries.
LogAfter(n) == SubSeq(run, n + 1, Len(run))

\* C11: when the timer is armed at tick 0 and reset at tick T-1, and not
\* reset again, the next T-1 ticks pass without expiry and the T-th tick
\* after the reset, tick (T-1)+T, is the expiry.
C11_ResetExtendsDeadline ==
    (/\ IsPrefix(ResetOneTickBeforeExpiry, run)
     /\ \A i \in 1..Len(LogAfter(IdleTicks + 1)) : LogAfter(IdleTicks + 1)[i] # "reset")
        => /\ IsPrefix(LogAfter(IdleTicks + 1), Ticks(IdleTicks - 1) \o <<"fire">>)
           /\ Len(LogAfter(IdleTicks + 1)) = IdleTicks - 1 => idle_timer = 1
           /\ Len(LogAfter(IdleTicks + 1)) < IdleTicks => ~idle_work

C11_Witness ==
    /\ run = ResetOneTickBeforeExpiry \o Ticks(IdleTicks - 1) \o <<"fire">>
    /\ idle_work
    /\ idle_timer = -1

\* ------------------------------------------------------------ button pipeline

\* The clients of the button specification.
BtnConns == {1, 2}

\* A step of the button specification that is not looked at.
BtnIdle ==
    /\ ev' = NoEvent
    /\ rt' = NoRoundTrip
    /\ UNCHANGED <<ctrl_last, run, joined, steps, btnHist>>

\* Some connect callback has stored a client or some link has gone down.
EverConnected == joined # NobodyJoined

BtnConnected(conn, err, hidErr, advRes) ==
    /\ connected(conn, err, hidErr, advRes)
    /\ joined' = IF joined.clean /\ err = 0 /\ hidErr = 0
                 THEN [joined EXCEPT !.conns = Append(@, conn)]
                 ELSE joined
    /\ ev' = NoEvent
    /\ rt' = NoRoundTrip
    /\ UNCHANGED <<ctrl_last, run, steps, btnHist>>

BtnDisconnected(conn, advRes) ==
    /\ disconnected(conn, advRes)
    /\ joined' = Disturbed
    /\ ev' = NoEvent
    /\ rt' = NoRoundTrip
    /\ UNCHANGED <<ctrl_last, run, steps, btnHist>>

\* A raw edge of the button; burst counts the edges that restart the
\* debounce delay before it expires.
BtnEdge ==
    /\ Len(run) < MaxEdges
    /\ button_isr
    /\ run' = Append(run, pin')
    /\ burst' = burst + 1
    /\ ev' = NoEvent
    /\ rt' = NoRoundTrip
    /\ UNCHANGED <<ctrl_last, joined, steps, tags>>

\* The debounce delay expires; the event is tagged with whether no
\* connection has existed so far.
BtnWork ==
    /\ button_work_handler
    /\ ev' = [op |-> "button_work", edges |-> burst, level |-> pin,
              before |-> Button_queue]
    /\ burst' = 0
    /\ tags' = Append(tags, ~EverConnected /\ live = {})
    /\ rt' = NoRoundTrip
    /\ UNCHANGED <<ctrl_last, run, joined, steps>>

\* The consumer takes an event; dispatched and reset tell what
\* button_thread_fn does with it.
BtnLoop(sendErr) ==
    /\ button_thread_loop(sendErr)
    /\ ev' = [op |-> "dequeue", level |-> Head(Button_queue), early |-> Head(tags),
              table |-> conn_mode,
              dispatched |-> isBle_connected /\ BUTTON_PIN = 1,
              reset |-> isBle_connected]
    /\ tags' = Tail(tags)
    /\ rt' = NoRoundTrip
    /\ UNCHANGED <<ctrl_last, run, joined, steps, burst>>

InitBtn ==
    /\ Boot
    /\ is_adv
    /\ ~imu_enabled
    /\ HistBoot

NextBtn ==
    \/ button_thread_start /\ BtnIdle
    \/ button_thread_connected /\ BtnIdle
    \/ \E se \in SendErrs : space_tap_press(se) /\ BtnIdle
    \/ \E se \in SendErrs : space_tap_release(se) /\ BtnIdle
    \/ BtnEdge
    \/ BtnWork
    \/ \E se \in SendErrs : BtnLoop(se)
    \/ \E c \in BtnConns, e \in ConnErrs, h \in HidErrs, a \in AdvResults :
          BtnConnected(c, e, h, a)
    \/ \E c \in BtnConns, a \in AdvResults : BtnDisconnected(c, a)
    \/ \E c \in BtnConns, e \in ConnErrs : security_changed(c, e) /\ BtnIdle

\* The button from GPIO edge to HID call, with clients coming and going.
SpecBtn == InitBtn /\ [][NextBtn]_vars

\* ------------------------------------------------------------ claims C12-C13

\* C12: an edge sampled before any connection existed is never dispatched
\* as a key press or release.
C12_EarlyEdgesDiscarded ==
    ~(ev.op = "dequeue" /\ ev.early /\ ev.dispatched)

\* C13: a dequeued edge is discarded (no dispatch, no idle-timer reset)
\* exactly when every connection slot is empty.
C13_DiscardIffNoConnection ==
    ev.op = "dequeue"
        => /\ ev.dispatched <=> Occupied(ev.table) # {}
           /\ ev.reset <=> Occupied(ev.table) # {}


\* ------------------------------------------------------------ claim C15

\* C15: N >= 1 raw edges that each restart the debounce delay produce
\* exactly one enqueued event, whose value is the pin level when the delay
\* expires; events enter the queue at no other moment.
C15_DebounceCoalesces ==
    /\ Len(tags) = Len(Button_queue)
    /\ (ev.op = "button_work" /\ ev.edges >= 1 /\ Len(ev.before) < BUTTON_QUEUE_LEN)
          => /\ Button_queue = Append(ev.before, pin)
             /\ ev.level = pin
             /\ ~button_work

C15_Witness ==
    /\ ev.op = "button_work"
    /\ ev.edges >= 2
    /\ Button_queue = <<pin>>


\* ------------------------------------------------------------ claim C14

\* The handles a sequence of sends went to.
SentTo(sent) == {sent[i].conn : i \in 1..Len(sent)}

\* C14: the broadcast made by a press reaches every occupied slot, also
\* when the send to one of them fails.
C14_SendFailureDoesNotAbort ==
    rt.phase = 1 => SentTo(rt.sent1) = Handles(rt.table)


\* ------------------------------------------------------------ claim C16

LatchQuiet ==
    /\ rt' = NoRoundTrip
    /\ UNCHANGED <<ctrl_last, run, joined, steps, btnHist>>

LatchSnapshot ==
    /\ read_latch_snapshot
    /\ ev' = [op |-> "latch_read"]
    /\ LatchQuiet

\* The rest of read_latch_register, with what it was given and what it did.
LatchWrite ==
    /\ read_latch_write
    /\ ev' = [op |-> "latch_write", snapshot |-> lat, before |-> NRF_P0_LATCH,
              write |-> read_latch_register(lat).write,
              ret |-> read_latch_register(lat).ret]
    /\ LatchQuiet

LatchAssert(b) ==
    /\ latch_assert(b)
    /\ ev' = NoEvent
    /\ LatchQuiet

\* SYS_INIT has not yet run read_latch_register; the latch holds the wake
\* causes.
InitLatch ==
    /\ BootApp
    /\ ~is_adv
    /\ LATCH_RESET_BUTTON = FALSE
    /\ NRF_P0_LATCH \in SUBSET LatchBitSet
    /\ lat = {}
    /\ latch_pc = "boot"
    /\ HistBoot

NextLatch ==
    \/ LatchSnapshot
    \/ LatchWrite
    \/ \E b \in LatchBitSet : LatchAssert(b)

\* read_latch_register at boot while the hardware may assert latch bits.
SpecLatch == InitLatch /\ [][NextLatch]_vars

\* C16: the wake flag is set iff the snapshot has the button bit; a non-zero
\* snapshot is written back as it was read, so only the bits read are
\* cleared and a bit asserted after the read stays set; a zero snapshot
\* writes nothing; the function returns 0.
C16_WakeCauseInspection ==
    ev.op = "latch_write"
        => /\ LATCH_RESET_BUTTON <=> USER_BUTTON_PIN \in ev.snapshot
           /\ ev.snapshot # {} => /\ ev.write.done
                                  /\ ev.write.value = ev.snapshot
                                  /\ NRF_P0_LATCH = ev.before \ ev.snapshot
           /\ ev.snapshot = {} => /\ ~ev.write.done
                                  /\ NRF_P0_LATCH = ev.before
           /\ ev.ret = 0

\* A bit asserted between the read and the write survives the write.
C16_Witness ==
    /\ ev.op = "latch_write"
    /\ USER_BUTTON_PIN \in ev.snapshot
    /\ LATCH_RESET_BUTTON
    /\ ev.before # ev.snapshot
    /\ NRF_P0_LATCH # {}


\* ------------------------------------------------------------ teardown and callbacks

\* The clients of the teardown specification.
TdConns == {1, 2}

NextTeardown ==
    \/ button_thread_start /\ NoKbdHistory
    \/ Tick /\ NoKbdHistory
    \/ IdleTimeout
    \/ TeardownStep
    \/ \E c \in TdConns, e \in ConnErrs, h \in HidErrs, a \in AdvResults : Connected(c, e, h, a)
    \/ \E c \in TdConns, a \in AdvResults : Disconnected(c, a)

\* The idle teardown while clients connect and disconnect.
SpecTeardown == InitSleep /\ [][NextTeardown]_vars

\* ------------------------------------------------------------ claims C17-C18, C20

C18_TableEmptyAtReturn ==
    ev.op = "bds_return" => Occupied(conn_mode) = {}


key_report_send_return ==
    /\ bc' = NoBroadcast
    /\ btn' = IF btn = "tap_press" THEN "tap_release" ELSE "loop"

\* key_report_send: the for loop goes on to slot i + 1, or returns 0.
key_report_send_next ==
    IF bc.i >= MaxClients
    THEN key_report_send_return
    ELSE bc' = [i |-> bc.i + 1, seen |-> NULL] /\ UNCHANGED btn

\* onButton_reset_send_spaceBar calls hid_buttons_press, then
\* hid_buttons_release: the key loop runs and key_report_send is entered.
space_tap_enter ==
    LET p == IF btn = "tap_press"
             THEN press_keys_from(hid_keyboard_state, <<HID_KEY_SPACE>>, 1)
             ELSE release_keys_from(hid_keyboard_state, <<HID_KEY_SPACE>>, 1)
    IN  /\ Running
        /\ btn \in {"tap_press", "tap_release"}
        /\ bc = NoBroadcast
        /\ hid_keyboard_state' = p.st
        /\ IF p.err # 0
           THEN key_report_send_return
           ELSE bc' = [i |-> 1, seen |-> NULL] /\ UNCHANGED btn
        /\ UNCHANGED ret
        /\ UNCHANGED <<pin, BUTTON_PIN, button_work, Button_queue, LATCH_RESET_BUTTON>>
        /\ UNCHANGED latchVars
        /\ UNCHANGED <<bleVars, sleepVars>>

\* key_report_send: if (conn_mode[i].conn).
key_report_send_check ==
    /\ Running
    /\ bc.i \in Slots
    /\ bc.seen = NULL
    /\ IF conn_mode[bc.i].conn = NULL
       THEN key_report_send_next
       ELSE bc' = [bc EXCEPT !.seen = conn_mode[bc.i].conn] /\ UNCHANGED btn
    /\ UNCHANGED <<hid_keyboard_state, ret>>
    /\ UNCHANGED <<pin, BUTTON_PIN, button_work, Button_queue, LATCH_RESET_BUTTON>>
    /\ UNCHANGED latchVars
    /\ UNCHANGED <<bleVars, sleepVars>>

\* The handle key_report_send passes to key_report_con_send: conn_mode is
\* written by other threads without synchronisation, so the build may pass
\* the value its check read or read conn_mode[i].conn again.
key_report_send_handle(table, reread) ==
    IF reread THEN table[bc.i].conn ELSE bc.seen

\* key_report_send: key_report_con_send(...) for slot i and the test of err.
key_report_send_call(err) ==
    /\ Running
    /\ bc.i \in Slots
    /\ bc.seen # NULL
    /\ IF err # 0 THEN key_report_send_return ELSE key_report_send_next
    /\ UNCHANGED <<hid_keyboard_state, ret>>
    /\ UNCHANGED <<pin, BUTTON_PIN, button_work, Button_queue, LATCH_RESET_BUTTON>>
    /\ UNCHANGED latchVars
    /\ UNCHANGED <<bleVars, sleepVars>>

KeyReportSendCall(err, reread) ==
    /\ key_report_send_call(err)
    /\ ev' = [op |-> "key_report_con_send", slot |-> bc.i, seen |-> bc.seen,
              cur |-> conn_mode[bc.i].conn,
              to |-> key_report_send_handle(conn_mode, reread), err |-> err]
    /\ UNCHANGED btnHist
    /\ rt' = NoRoundTrip
    /\ UNCHANGED <<ctrl_last, run, joined, steps>>

\* The clients of the broadcast specification.
RaceConns == {1, 2}

NextRace ==
    \/ button_thread_start /\ NoKbdHistory
    \/ button_thread_connected /\ NoKbdHistory
    \/ Tick /\ NoKbdHistory
    \/ IdleTimeout
    \/ TeardownStep
    \/ \E c \in RaceConns, a \in AdvResults : connected(c, 0, 0, a) /\ NoKbdHistory
    \/ \E c \in RaceConns : security_changed(c, 0) /\ NoKbdHistory
    \/ \E c \in RaceConns, a \in AdvResults : disconnected(c, a) /\ NoKbdHistory
    \/ space_tap_enter /\ NoKbdHistory
    \/ key_report_send_check /\ NoKbdHistory
    \/ \E e \in {0, -EIO}, r \in BOOLEAN : KeyReportSendCall(e, r)

InitRace == InitSleep /\ LATCH_RESET_BUTTON

\* The wake-up space tap of the button thread while clients connect and
\* disconnect and the idle teardown runs.
SpecRace == InitRace /\ [][NextRace]_vars

\* ------------------------------------------------------------ claim C19

\* C19: the broadcast never sends a report to a handle whose slot was
\* cleared between the broadcast's emptiness check and its send.
C19_NoSendToClearedSlot ==
    ev.op = "key_report_con_send" => (ev.to = NULL \/ ev.to = ev.cur)


\* ------------------------------------------------------------ claim C21

\* What one step does to is_internal_ble_disconnect and what a disconnect
\* callback does once the flag is clear.
FlagStep ==
    /\ (is_internal_ble_disconnect' /\ ~is_internal_ble_disconnect) => ev'.op = "bds_request"
    /\ (is_internal_ble_disconnect /\ ~is_internal_ble_disconnect') => ev'.op = "disconnected"
    /\ ev'.op = "disconnected" =>
           /\ ev'.internal = is_internal_ble_disconnect
           /\ ~is_internal_ble_disconnect'
           /\ ~is_internal_ble_disconnect =>
                  /\ ev'.conn \notin Handles(conn_mode')
                  /\ \A i \in Slots : conn_mode[i].conn # ev'.conn => conn_mode'[i] = conn_mode[i]
                  /\ ~isBle_connected'
                  /\ ev'.advRes = 0 => is_adv'

\* C21: only ble_disconnect_safe sets the internal-disconnect flag, only a
\* disconnect callback resets it, and every disconnect callback leaves it
\* false: the first callback after the flag was set consumes it, and every
\* later callback finds it false and is handled as an ordinary disconnect.
C21_FlagAffectsOneEvent == [][FlagStep]_vars

\* The teardown asked two clients to disconnect; the second callback found
\* the flag already consumed.
C21_Witness ==
    /\ ev.op = "disconnected"
    /\ ~ev.internal
    /\ steps # <<>>
    /\ steps[Len(steps)] = "bds_call"
    /\ live = {}
    /\ ~is_internal_ble_disconnect


\* ------------------------------------------------------------ claims C22-C24

\* C22: after connected() has handled a link established with error code 0,
\* either the table is full and is_adv is false, or the table has a free slot
\* and advertising_start() has been called, on every return path.
C22_FullOrAdvertisingAgain ==
    (ev.op = "connected" /\ ev.err = 0)
        => \/ FreeSlots(conn_mode) = {} /\ ~is_adv
           \/ FreeSlots(conn_mode) # {} /\ ev.restarted

\* C23: is_adv is false whenever every slot of the table is occupied.
C23_NotAdvertisingWhenFull ==
    FreeSlots(conn_mode) = {} => ~is_adv

\* C24: a disconnect callback or protocol-mode callback for a handle that is
\* in no slot changes neither the table nor is_adv nor isBle_connected.
C24_UnknownHandleChangesNothing ==
    (ev.op \in {"disconnected", "pm_evt"} /\ ev.conn \notin Handles(ev.before))
        => /\ conn_mode = ev.before
           /\ ev.op = "disconnected" => (is_adv = ev.adv /\ isBle_connected = ev.secured)


\* ------------------------------------------------------------ claims C25-C27

\* C25: a connect callback with a non-zero error code changes no slot of the
\* table and does not notify the HID service.
C25_FailedConnectChangesNoSlot ==
    (ev.op = "connected" /\ ev.err # 0)
        => /\ conn_mode = ev.before
           /\ ~ev.notified

\* A failed connect arrived while a slot was free.
C25_Witness ==
    /\ ev.op = "connected"
    /\ ev.err # 0
    /\ FreeSlots(ev.before) # {}
    /\ Handles(ev.before) # {}

\* The slot a successful connect fills: empty before, every lower slot
\* occupied before.
IsFirstFree(table, s) ==
    /\ table[s].conn = NULL
    /\ \A j \in Slots : j < s => table[j].conn # NULL

\* C26: a successful connect that finds an empty slot stores the handle in
\* the lowest-index empty slot with protocol mode Report and leaves every
\* other slot, handle and mode, unchanged.
C26_StoredInFirstFreeSlotAsReport ==
    (ev.op = "connected" /\ ev.err = 0 /\ ev.hidErr = 0)
        => \A s \in Slots : IsFirstFree(ev.before, s) =>
               /\ conn_mode[s] = [conn |-> ev.conn, in_boot_mode |-> FALSE]
               /\ \A i \in Slots \ {s} : conn_mode[i] = ev.before[i]

\* The first slot is reused after its earlier client had entered Boot mode,
\* while the second slot holds a client in Boot mode.
C26_Witness ==
    /\ ev.op = "connected" /\ ev.err = 0 /\ ev.hidErr = 0
    /\ ev.before[1] = [conn |-> NULL, in_boot_mode |-> TRUE]
    /\ ev.before[2].conn # NULL
    /\ ev.before[2].in_boot_mode
    /\ conn_mode[1].conn = ev.conn

\* C27: a protocol-mode event for a stored handle sets the mode of the slot
\* that holds it, to Boot or to Report as the event says, and changes no
\* other slot's mode and no slot's handle.
C27_ModeEventUpdatesOnlyItsSlot ==
    (ev.op = "pm_evt" /\ ev.conn \in Handles(ev.before))
        => \A i \in Slots :
               /\ conn_mode[i].conn = ev.before[i].conn
               /\ conn_mode[i].in_boot_mode =
                      IF ev.before[i].conn = ev.conn THEN ev.boot
                      ELSE ev.before[i].in_boot_mode

\* The client in the second slot enters Boot mode while the first slot holds
\* a client in Report mode.
C27_Witness ==
    /\ ev.op = "pm_evt"
    /\ ev.boot
    /\ ev.before[2].conn = ev.conn
    /\ ~ev.before[2].in_boot_mode
    /\ ev.before[1].conn \notin {NULL, ev.conn}
    /\ ~conn_mode[1].in_boot_mode
    /\ conn_mode[2].in_boot_mode


\* ------------------------------------------------------------ claim C28

\* C28: no connection handle is stored in more than one slot of the table.
C28_NoHandleInTwoSlots ==
    \A i, j \in Slots :
        (i # j /\ conn_mode[i].conn # NULL) => conn_mode[i].conn # conn_mode[j].conn


\* ------------------------------------------------------------ claim C29

\* Position, among the sends of one broadcast, of the send for occupied slot i.
SendIndex(table, i) == Cardinality({j \in Occupied(table) : j <= i})

NoSendFailed(sent) == \A n \in 1..Len(sent) : sent[n].err = 0

\* C29: when no send fails, a broadcast sends the current 8-byte report
\* [modifier, 0, key slots 0..5] once for every occupied slot and for no
\* empty slot, with the boot-mode primitive exactly for the slots in Boot
\* mode and the report-mode primitive for the others.
C29_BroadcastReachesEveryOccupiedSlot ==
    (rt.phase = 1 /\ NoSendFailed(rt.sent1))
        => /\ Len(rt.sent1) = Cardinality(Occupied(rt.table))
           /\ \A i \in Occupied(rt.table) :
                  LET s == rt.sent1[SendIndex(rt.table, i)]
                  IN  /\ s.conn = rt.table[i].conn
                      /\ s.boot = rt.table[i].in_boot_mode
                      /\ Len(s.data) = 2 + KEY_PRESS_MAX
                      /\ s.data = <<hid_keyboard_state.ctrl_keys_state, 0>>
                                      \o hid_keyboard_state.keys_state

\* A broadcast to one client in Boot mode and one in Report mode.
C29_Witness ==
    /\ rt.phase = 1
    /\ NoSendFailed(rt.sent1)
    /\ Len(rt.sent1) = 2
    /\ rt.sent1[1].boot
    /\ ~rt.sent1[2].boot
    /\ rt.sent1[1].data[3] = HID_KEY_A



\* ------------------------------------------------------------ claim C30

\* The client of the batch specification.
BatchConn == 1

\* Largest cnt the batch specification passes to hid_buttons_press.
MaxBatch == 2

\* The batches tried next: MaxBatch or fewer keys, the non-control ones in
\* increasing code order and each above every key pressed so far, the second
\* key possibly a control key.
Batches ==
    {<<k>> : k \in FillKeys} \cup
    {<<p[1], p[2]>> : p \in {q \in FillKeys \X FillKeys : q[1] < q[2]}} \cup
    {<<k, KEY_CTRL_CODE_MIN>> : k \in FillKeys}

\* The non-control keys of a batch.
NonControl(keys) == SelectSeq(keys, LAMBDA k : k \notin KEY_CTRL_CODE_MIN..KEY_CTRL_CODE_MAX)

\* The application calls hid_buttons_press(keys, cnt) with cnt = Len(keys).
BatchPress(keys) ==
    /\ Len(keys) <= MaxBatch
    /\ Len(run) + Len(NonControl(keys)) <= KEY_PRESS_MAX + 1
    /\ \A i \in 1..Len(run) : run[i] < keys[1]
    /\ HidButtonsPress(keys, NoSendErr)
    /\ ev' = [op |-> "press_batch", keys |-> keys,
              before |-> ReportBytes(hid_keyboard_state), table |-> conn_mode,
              sent |-> hid_buttons_press(hid_keyboard_state, conn_mode, keys, NoSendErr).sent]
    /\ run' = run \o NonControl(keys)
    /\ rt' = NoRoundTrip
    /\ UNCHANGED <<ctrl_last, joined, steps, btnHist>>
    /\ UNCHANGED <<bleVars, sleepVars, btnVars>>

NextBatch ==
    \/ \E a \in AdvResults : connected(BatchConn, 0, 0, a) /\ NoKbdHistory
    \/ \E keys \in Batches : BatchPress(keys)

\* A client connects while batches of distinct keys are pressed and none is
\* released.
SpecBatch == InitBle /\ [][NextBatch]_vars

\* C30: every call of hid_buttons_press makes one full report broadcast
\* before it returns, one send for every occupied slot, also when a key of
\* its batch could not be applied.
C30_EveryCallBroadcasts ==
    ev.op = "press_batch" => Len(ev.sent) = Cardinality(Occupied(ev.table))


\* ------------------------------------------------------------ claim C31

\* C31: a batch press applies its keys one at a time in array order; when a
\* key fails for want of a free key slot the call returns -EBUSY, the keys
\* before it are applied and stay applied, and the keys after it are left as
\* they were; no key held before the call is lost.
C31_BatchStopsAtFirstFailure ==
    LET after == ReportBytes(hid_keyboard_state)
        n == Len(ev.keys)
    IN  ev.op = "press_batch" =>
            /\ \A k \in FillKeys \cup {KEY_CTRL_CODE_MIN} :
                   IsHeld(ev.before, k) => IsHeld(after, k)
            /\ ret \in {0, -EBUSY}
            /\ ret = 0 => \A i \in 1..n : IsHeld(after, ev.keys[i])
            /\ ret = -EBUSY =>
                   \E f \in 1..n :
                       /\ ~IsHeld(after, ev.keys[f])
                       /\ \A i \in 3..(2 + KEY_PRESS_MAX) : after[i] # 0
                       /\ \A i \in 1..(f - 1) : IsHeld(after, ev.keys[i])
                       /\ \A i \in (f + 1)..n :
                              IsHeld(after, ev.keys[i]) <=> IsHeld(ev.before, ev.keys[i])

\* The first key of a batch took the last free slot and the second failed.
C31_Witness ==
    /\ ev.op = "press_batch"
    /\ Len(ev.keys) = 2
    /\ ret = -EBUSY
    /\ ~IsHeld(ev.before, ev.keys[1])
    /\ IsHeld(ReportBytes(hid_keyboard_state), ev.keys[1])
    /\ ~IsHeld(ReportBytes(hid_keyboard_state), ev.keys[2])


\* ------------------------------------------------------------ the full queue

\* The client of the queue specification.
QueueConn == 1

\* A step of the queue specification that is not looked at.
QueueQuiet ==
    /\ ev' = NoEvent
    /\ rt' = NoRoundTrip
    /\ UNCHANGED <<ctrl_last, run, joined, steps, btnHist>>

\* Edges of the button in a run of the queue specification: enough to fill
\* the queue, lose a level and queue another behind the 16.
QueueEdges == BUTTON_QUEUE_LEN + 2

\* An edge of the button once the previous one has been debounced.
QueueEdge ==
    /\ Len(run) < QueueEdges
    /\ ~button_work
    /\ button_isr
    /\ run' = Append(run, pin')
    /\ ev' = NoEvent
    /\ rt' = NoRoundTrip
    /\ UNCHANGED <<ctrl_last, joined, steps, btnHist>>

\* The debounce delay expires and button_work_handler runs.
QueueWork ==
    /\ button_work_handler
    /\ ev' = [op |-> "k_msgq_put", level |-> pin, before |-> Button_queue]
    /\ rt' = NoRoundTrip
    /\ UNCHANGED <<ctrl_last, run, joined, steps, btnHist>>

\* The consumer takes an event from the queue.
QueueLoop ==
    /\ button_thread_loop(NoSendErr)
    /\ ev' = [op |-> "k_msgq_get", before |-> Button_queue]
    /\ rt' = NoRoundTrip
    /\ UNCHANGED <<ctrl_last, run, joined, steps, btnHist>>

InitQueue == InitBtn /\ ~LATCH_RESET_BUTTON

NextQueue ==
    \/ button_thread_start /\ QueueQuiet
    \/ button_thread_connected /\ QueueQuiet
    \/ connected(QueueConn, 0, 0, 0) /\ QueueQuiet
    \/ security_changed(QueueConn, 0) /\ QueueQuiet
    \/ QueueEdge
    \/ QueueWork
    \/ QueueLoop

\* The button is pressed and released any number of times, before and after
\* a client has connected.
SpecQueue == InitQueue /\ [][NextQueue]_vars

\* ------------------------------------------------------------ claim C32

\* C32: Button_queue never holds more than 16 events; the debounce handler
\* can always run to its end; with 16 events queued the newly sampled level
\* is dropped and the queue is unchanged, otherwise it is added at the tail;
\* the consumer takes the events from the head.
C32_QueueBoundedDropWhenFull ==
    /\ Len(Button_queue) <= 16
    /\ (button_work /\ wq = "idle") => ENABLED QueueWork
    /\ ev.op = "k_msgq_put" =>
           Button_queue = IF Len(ev.before) = 16 THEN ev.before
                          ELSE Append(ev.before, ev.level)
    /\ ev.op = "k_msgq_get" => Button_queue = Tail(ev.before)

\* A level was sampled while 16 events were queued.
C32_Witness ==
    /\ ev.op = "k_msgq_put"
    /\ Len(ev.before) = 16
    /\ Button_queue = ev.before


\* ------------------------------------------------------------ the wake-up tap

\* The client of the tap specification.
TapConn == 1

\* A step of the tap specification that adds entry e to the log.
TapLog(e) ==
    /\ steps' = Append(steps, e)
    /\ ev' = NoEvent
    /\ rt' = NoRoundTrip
    /\ UNCHANGED <<ctrl_last, run, joined, btnHist>>

\* A step of the tap specification that is not logged.
TapQuiet ==
    /\ ev' = NoEvent
    /\ rt' = NoRoundTrip
    /\ UNCHANGED <<ctrl_last, run, joined, steps, btnHist>>

\* security_changed reports a connection live; the first report is logged.
TapSecurityChanged ==
    /\ security_changed(TapConn, 0)
    /\ IF \E i \in 1..Len(steps) : steps[i] = "live" THEN TapQuiet ELSE TapLog("live")

\* The consumer leaves its wait loop; the log tells what it found in
\* LATCH_RESET_BUTTON.
TapThreadConnected ==
    /\ button_thread_connected
    /\ TapLog(IF LATCH_RESET_BUTTON THEN "wake" ELSE "nowake")

TapEdge ==
    /\ Len(run) < MaxEdges
    /\ button_isr
    /\ run' = Append(run, pin')
    /\ ev' = NoEvent
    /\ rt' = NoRoundTrip
    /\ UNCHANGED <<ctrl_last, joined, steps, btnHist>>

\* The consumer takes an event; a dispatched one is logged.
TapLoop(sendErr) ==
    /\ button_thread_loop(sendErr)
    /\ IF isBle_connected /\ BUTTON_PIN = 1 THEN TapLog("dispatch") ELSE TapQuiet

NextTap ==
    \/ button_thread_start /\ TapQuiet
    \/ connected(TapConn, 0, 0, 0) /\ TapQuiet
    \/ disconnected(TapConn, 0) /\ TapQuiet
    \/ TapSecurityChanged
    \/ TapThreadConnected
    \/ \E se \in SendErrs : space_tap_press(se) /\ TapLog("space_down")
    \/ \E se \in SendErrs : space_tap_release(se) /\ TapLog("space_up")
    \/ TapEdge
    \/ button_work_handler /\ TapQuiet
    \/ \E se \in SendErrs : TapLoop(se)

\* The consumer thread from its start to the dispatch of button edges, after
\* a boot with or without the wake flag.
SpecTap == InitBtn /\ [][NextTap]_vars

\* ------------------------------------------------------------ claim C33

LogAt(e) == {i \in 1..Len(steps) : steps[i] = e}

\* C33: the space tap is sent at most once per boot, only when the consumer
\* found the wake flag set, only after a connection was reported live and
\* before any button edge is dispatched; the release follows the press; the
\* wake flag is false once the consumer has left its wait loop.
C33_WakeTapOnceBeforeEdges ==
    /\ Cardinality(LogAt("space_down")) <= 1
    /\ Cardinality(LogAt("space_up")) <= 1
    /\ \A i \in LogAt("space_down") :
           /\ i > 1
           /\ steps[i - 1] = "wake"
           /\ \E j \in LogAt("live") : j < i
           /\ \A j \in LogAt("dispatch") : j > i
    /\ \A i \in LogAt("space_up") : i > 1 /\ steps[i - 1] = "space_down"
    /\ \A i \in LogAt("dispatch") :
           \/ \E j \in LogAt("nowake") : j < i
           \/ \E j \in LogAt("space_up") : j < i
    /\ btn \in {"tap_press", "tap_release", "loop"} => ~LATCH_RESET_BUTTON

\* After a wake-up by the button the tap was sent and an edge was dispatched
\* behind it.
C33_Witness ==
    /\ Len(steps) = 5
    /\ steps[1] = "live"
    /\ steps[2] = "wake"
    /\ steps[3] = "space_down"
    /\ steps[4] = "space_up"
    /\ steps[5] = "dispatch"


\* ------------------------------------------------------------ the consumer loop

\* The client of the consumer specification.
ConsumeConn == 1

\* Edges of the button in a run of the consumer specification: enough for
\* one more press than there are key slots, and the release after it.
ConsumeEdges == 2 * KEY_PRESS_MAX + 2

\* A step of the consumer specification other than a dequeue: ev keeps the
\* record of the last dequeue.
ConsumeQuiet ==
    /\ rt' = NoRoundTrip
    /\ UNCHANGED <<ev, ctrl_last, run, joined, steps, btnHist>>

\* An edge of the button once the previous one has been debounced.
ConsumeEdge ==
    /\ Len(run) < ConsumeEdges
    /\ ~button_work
    /\ button_isr
    /\ run' = Append(run, pin')
    /\ rt' = NoRoundTrip
    /\ UNCHANGED <<ev, ctrl_last, joined, steps, btnHist>>

\* Whether the HID call of some event taken so far returned an error.
FailedSoFar == ev.op = "k_msgq_get" /\ ev.failed

\* Whether the HID call of some event taken so far found no free key slot.
BusySoFar == ev.op = "k_msgq_get" /\ ev.busy

\* What the HID call made for the event at the head of the queue returns, 0
\* when the event is not dispatched.
DispatchResult(sendErr) ==
    IF isBle_connected /\ BUTTON_PIN = 1
    THEN IF Head(Button_queue)
         THEN hid_buttons_press(hid_keyboard_state, conn_mode, <<HID_KEY_H>>, sendErr).ret
         ELSE hid_buttons_release(hid_keyboard_state, conn_mode, <<HID_KEY_H>>, sendErr).ret
    ELSE 0

\* The consumer takes an event; the record tells whether the HID call of
\* this or of an earlier event returned an error.
ConsumeLoop(sendErr) ==
    /\ button_thread_loop(sendErr)
    /\ ev' = [op |-> "k_msgq_get", failed |-> FailedSoFar \/ DispatchResult(sendErr) # 0,
              busy |-> BusySoFar \/ DispatchResult(sendErr) = -EBUSY]
    /\ rt' = NoRoundTrip
    /\ UNCHANGED <<ctrl_last, run, joined, steps, btnHist>>

ConsumerStep == \E se \in SendErrs : ConsumeLoop(se)

NextConsume ==
    \/ button_thread_start /\ ConsumeQuiet
    \/ button_thread_connected /\ ConsumeQuiet
    \/ connected(ConsumeConn, 0, 0, 0) /\ ConsumeQuiet
    \/ security_changed(ConsumeConn, 0) /\ ConsumeQuiet
    \/ disconnected(ConsumeConn, 0) /\ ConsumeQuiet
    \/ ConsumeEdge
    \/ button_work_handler /\ ConsumeQuiet
    \/ ConsumerStep

\* The button pipeline with a client that comes and goes, the idle timer
\* never expiring.
SpecConsume == InitQueue /\ [][NextConsume]_vars

\* The same with the consumer thread scheduled fairly.
SpecConsumeFair == SpecConsume /\ WF_vars(ConsumerStep)

\* ------------------------------------------------------------ claim C34

\* C34: once the consumer is in its loop, whatever the HID calls of earlier
\* events returned, the queue is eventually empty again: every event that
\* was put in it has been taken.
C34_EveryEventEventuallyDequeued ==
    [](((btn = "loop" \/ FailedSoFar) /\ Button_queue # <<>>) => <>(Button_queue = <<>>))

\* A release was taken and dispatched after the HID call of an earlier
\* press had failed for want of a key slot.
C34_Witness ==
    /\ BusySoFar
    /\ hid_keyboard_state.keys_state[1] = 0
    /\ \A i \in 2..KEY_PRESS_MAX : hid_keyboard_state.keys_state[i] = HID_KEY_H
    /\ Len(run) = ConsumeEdges
    /\ Button_queue = <<>>


\* ------------------------------------------------------------ claim C35

\* C35: once the consumer thread has armed the idle timer, a successful
\* connect and a disconnect re-arm it to its full timeout.
C35_BleActivityResetsIdleTimer ==
    (btn # "start" /\ (ev.op = "disconnected" \/ (ev.op = "connected" /\ ev.err = 0)))
        => idle_timer = start_idle_timer


\* ------------------------------------------------------------ claim C36

\* C36: from the stop-advertising step of ble_disconnect_safe until
\* system-off, is_adv stays false.
C36_NoAdvertisingAfterTeardownStop ==
    wq \in {"sleep20", "grace", "poweroff", "off"} => ~is_adv


\* ------------------------------------------------------------ claim C37

\* C37: with the button up, its last edge debounced, the queue empty and the
\* consumer waiting for the next event, the button's key code is in no slot
\* of the pressed-key array.
C37_NoStuckKey ==
    (~pin /\ ~button_work /\ Button_queue = <<>> /\ btn = "loop" /\ bc = NoBroadcast)
        => \A i \in 1..KEY_PRESS_MAX : hid_keyboard_state.keys_state[i] # HID_KEY_H


\* ------------------------------------------------------------ calls on collaborators
\* The teardown specification with a log, in steps, of the calls the
\* application makes on the connection objects and on the HID service.

Call(fn, conn) == [fn |-> fn, conn |-> conn]

\* One call of fn for every stored handle, in slot order.
SlotCalls(table, fn) ==
    LET stored == SelectSeq([i \in Slots |-> table[i].conn], LAMBDA c : c # NULL)
    IN  [i \in 1..Len(stored) |-> Call(fn, stored[i])]

\* connected(): connect_bt_hid(conn) unless err; the handle is stored as it
\* was passed in, without a call that takes a reference.
connected_calls(conn, err) ==
    IF connected_notifies(err) THEN <<Call("connect_bt_hid", conn)>> ELSE <<>>

\* disconnected(): disconnect_bt_hid(conn) unless the early return is taken.
disconnected_calls(internal, conn) ==
    IF internal THEN <<>> ELSE <<Call("disconnect_bt_hid", conn)>>

\* ble_disconnect_safe, first loop: disconnect_bt_hid(c) for every stored c.
ble_disconnect_safe_request_calls(table) == SlotCalls(table, "disconnect_bt_hid")

\* ble_disconnect_safe, second loop: bt_conn_unref(c) for every stored c.
ble_disconnect_safe_clear_calls(table) == SlotCalls(table, "bt_conn_unref")

\* Successful connects in a run of the specification.
CallConnects == MaxClients + 1

\* A step that makes the given calls.
CallLog(calls) ==
    /\ steps' = steps \o calls
    /\ ev' = NoEvent
    /\ rt' = NoRoundTrip
    /\ UNCHANGED <<ctrl_last, joined, btnHist>>

CallConnected(conn, err, hidErr, advRes) ==
    /\ err = 0 => Len(run) < CallConnects
    /\ connected(conn, err, hidErr, advRes)
    /\ run' = IF err = 0 THEN Append(run, conn) ELSE run
    /\ CallLog(connected_calls(conn, err))

CallDisconnected(conn, advRes) ==
    /\ disconnected(conn, advRes)
    /\ CallLog(disconnected_calls(is_internal_ble_disconnect, conn))
    /\ UNCHANGED run

CallBdsRequest(hidErr, discErr) ==
    /\ ble_disconnect_safe_request(hidErr, discErr)
    /\ CallLog(ble_disconnect_safe_request_calls(conn_mode))
    /\ UNCHANGED run

CallBdsClear(stopErr) ==
    /\ ble_disconnect_safe_clear(stopErr)
    /\ CallLog(ble_disconnect_safe_clear_calls(conn_mode))
    /\ UNCHANGED run

\* A step that calls neither the connection objects nor the HID service.
CallQuiet == CallLog(<<>>) /\ UNCHANGED run

NextCalls ==
    \/ button_thread_start /\ CallQuiet
    \/ Tick /\ CallQuiet
    \/ idle_timeout /\ CallQuiet
    \/ \E e \in ImuErrs : idle_work_fn_imu(e) /\ CallQuiet
    \/ \E h \in HidErrs, e \in DiscErrs : CallBdsRequest(h, e)
    \/ \E e \in StopErrs : CallBdsClear(e)
    \/ ble_disconnect_safe_return /\ CallQuiet
    \/ idle_work_fn_grace /\ CallQuiet
    \/ enter_device_sleep /\ CallQuiet
    \/ \E c \in TdConns, e \in ConnErrs, h \in HidErrs, a \in AdvResults :
          CallConnected(c, e, h, a)
    \/ \E c \in TdConns, a \in AdvResults : CallDisconnected(c, a)

\* Clients connect and disconnect until the idle teardown switches off.
SpecCalls == InitSleep /\ [][NextCalls]_vars

\* How many of the first n calls are fn(conn).
CallCount(fn, conn, n) == Cardinality({i \in 1..n : steps[i] = Call(fn, conn)})

\* The references the application holds on conn: those it took less those
\* it released.
AppRefs(conn) ==
    CallCount("bt_conn_ref", conn, Len(steps)) - CallCount("bt_conn_unref", conn, Len(steps))

\* ------------------------------------------------------------ claim C38

\* C38: the application never holds a negative number of references on a
\* connection: every bt_conn_unref releases a reference it took before.
C38_ReferencesNeverNegative == \A c \in TdConns : AppRefs(c) >= 0

\* ------------------------------------------------------------ claim C39

\* C39: at every point of a run the HID service has had, for each
\* connection, no more disconnect notifications than connect notifications.
C39_DisconnectNotifiedOncePerConnect ==
    \A c \in TdConns : \A n \in 1..Len(steps) :
        CallCount("disconnect_bt_hid", c, n) <= CallCount("connect_bt_hid", c, n)


\* ------------------------------------------------------------ power-down without a live connection
\* The program when no security change ever reports a connection live: the
\* consumer stays in its wait loop. steps counts the ticks of the idle timer
\* since the consumer armed it.

\* The client that connects without reaching the required security.
PowerConn == 1

\* Edges of the button in a run: enough to fill the queue and lose one.
PowerEdges == BUTTON_QUEUE_LEN + 1

PowerQuiet ==
    /\ ev' = NoEvent
    /\ rt' = NoRoundTrip
    /\ UNCHANGED <<ctrl_last, run, joined, steps, btnHist>>

\* An edge of the button once the previous one has been debounced.
PowerEdge ==
    /\ Len(run) < PowerEdges
    /\ ~button_work
    /\ button_isr
    /\ run' = Append(run, pin')
    /\ ev' = NoEvent
    /\ rt' = NoRoundTrip
    /\ UNCHANGED <<ctrl_last, joined, steps, btnHist>>

\* One tick of the time the armed idle timer measures.
PowerElapsed ==
    /\ steps' = Append(steps, "tick")
    /\ ev' = NoEvent
    /\ rt' = NoRoundTrip
    /\ UNCHANGED <<ctrl_last, run, joined, btnHist>>

PowerTick == Tick /\ PowerElapsed

PowerTimeout == idle_timeout /\ PowerElapsed

PowerThreadStart == button_thread_start /\ PowerQuiet

PowerWorkQueue ==
    \/ \E e \in ImuErrs : idle_work_fn_imu(e) /\ PowerQuiet
    \/ \E h \in HidErrs, e \in DiscErrs : ble_disconnect_safe_request(h, e) /\ PowerQuiet
    \/ \E e \in StopErrs : ble_disconnect_safe_clear(e) /\ PowerQuiet
    \/ ble_disconnect_safe_return /\ PowerQuiet
    \/ idle_work_fn_grace /\ PowerQuiet
    \/ enter_device_sleep /\ PowerQuiet

NextPower ==
    \/ PowerThreadStart
    \/ PowerTick
    \/ PowerTimeout
    \/ PowerWorkQueue
    \/ PowerEdge
    \/ button_work_handler /\ PowerQuiet
    \/ \E e \in ConnErrs, h \in HidErrs, a \in AdvResults :
          connected(PowerConn, e, h, a) /\ PowerQuiet
    \/ \E a \in AdvResults : disconnected(PowerConn, a) /\ PowerQuiet

SpecPower == InitSleep /\ [][NextPower]_vars

\* The consumer thread is started, time passes while the timer runs, the
\* timer callback fires, and the system work queue runs what is submitted.
SpecPowerFair ==
    /\ SpecPower
    /\ WF_vars(PowerThreadStart)
    /\ WF_vars(PowerTick)
    /\ WF_vars(PowerTimeout)
    /\ WF_vars(PowerWorkQueue)

\* ------------------------------------------------------------ claim C40

\* C40: with no connection ever live, the idle timer armed at consumer start
\* is reset by no button edge: it expires when exactly the full timeout has
\* elapsed since the start, and system-off is eventually entered.
C40_PowersDownWithoutLiveConnection ==
    /\ []((btn # "start" /\ idle_timer = -1) => Len(steps) = start_idle_timer)
    /\ <>(wq = "off")

\* System-off entered with every edge of the run made, the queue full, and
\* the consumer still waiting for a live connection.
C40_Witness ==
    /\ wq = "off"
    /\ btn = "wait"
    /\ ~isBle_connected
    /\ Len(run) = PowerEdges
    /\ Len(Button_queue) = BUTTON_QUEUE_LEN
    /\ Len(steps) = start_idle_timer

====
